---- MODULE Spec2Model ----
(***************************************************************************)
(* Model of caryatid: the Vagrant catalog (pkg/caryatid/vagrant_catalog.go),*)
(* the version comparator (comparable_version.go, kept in backend.go), the *)
(* BackendManager (backend_manager.go) and the S3 backend                  *)
(* (backend_s3.go, kept in backend_localfile.go).                          *)
(*                                                                         *)
(* Go strings are TLA+ strings; they are taken apart with Len and SubSeq   *)
(* and put together with \o, as the Go code does with the strings package. *)
(***************************************************************************)
EXTENDS Integers, Sequences, FiniteSets, TLC

(***************************************************************************)
(* Helpers from the Go standard library, as used by the code               *)
(***************************************************************************)

\* s[i-1:i] in Go: the one-character string at (1-based) position i
CharAt(s, i) == SubSeq(s, i, i)

\* strings.HasPrefix
HasPrefix(s, prefix) ==
    /\ Len(prefix) <= Len(s)
    /\ SubSeq(s, 1, Len(prefix)) = prefix

\* strings.Contains(s, c) for a one-character c
ContainsChar(s, c) == \E i \in 1..Len(s) : CharAt(s, i) = c

\* the index of the first c in s where strings.LastIndex gives the last
FirstIndex(s, c) ==
    LET hits == {i \in 1..Len(s) : CharAt(s, i) = c}
    IN  IF hits = {} THEN -1
        ELSE (CHOOSE i \in hits : \A j \in hits : i <= j) - 1

\* strings.LastIndex(s, c) for a one-character c: Go's 0-based index, -1 if absent
LastIndex(s, c) ==
    LET hits == {i \in 1..Len(s) : CharAt(s, i) = c}
    IN  IF hits = {} THEN -1
        ELSE (CHOOSE i \in hits : \A j \in hits : j <= i) - 1

UpperChars == "ABCDEFGHIJKLMNOPQRSTUVWXYZ"

LowerChars == "abcdefghijklmnopqrstuvwxyz"

\* strings.ToLower, for ASCII
RECURSIVE ToLower(_)
ToLower(s) ==
    IF Len(s) = 0 THEN ""
    ELSE LET c    == CharAt(s, 1)
             hits == {i \in 1..26 : CharAt(UpperChars, i) = c}
         IN  (IF hits = {} THEN c ELSE CharAt(LowerChars, CHOOSE i \in hits : TRUE))
                 \o ToLower(SubSeq(s, 2, Len(s)))

\* strings.Split(s, c) for a one-character separator c: always at least one part
RECURSIVE SplitFrom(_, _, _, _)
SplitFrom(s, c, start, i) ==
    IF i > Len(s) THEN << SubSeq(s, start, Len(s)) >>
    ELSE IF CharAt(s, i) = c
         THEN << SubSeq(s, start, i - 1) >> \o SplitFrom(s, c, i + 1, i + 1)
         ELSE SplitFrom(s, c, start, i + 1)

Split(s, c) == SplitFrom(s, c, 1, 1)

Digits == <<"0", "1", "2", "3", "4", "5", "6", "7", "8", "9">>

IsDigit(c) == \E d \in 1..10 : Digits[d] = c

DigitVal(c) == (CHOOSE d \in 1..10 : Digits[d] = c) - 1

RECURSIVE DigitsVal(_, _)
DigitsVal(s, acc) ==
    IF Len(s) = 0 THEN acc
    ELSE DigitsVal(SubSeq(s, 2, Len(s)), acc * 10 + DigitVal(CharAt(s, 1)))

\* strconv.ParseInt(s, 10, 0): an optional sign, then one or more decimal digits
ParseInt(s) ==
    LET signed == Len(s) > 0 /\ CharAt(s, 1) \in {"+", "-"}
        body   == IF signed THEN SubSeq(s, 2, Len(s)) ELSE s
        ok     == Len(body) > 0 /\ \A i \in 1..Len(body) : IsDigit(CharAt(body, i))
        mag    == IF ok THEN DigitsVal(body, 0) ELSE 0
    IN  [ok  |-> ok,
         val |-> IF signed /\ CharAt(s, 1) = "-" THEN 0 - mag ELSE mag]

(***************************************************************************)
(* VersionComparator and ComparableVersion                                 *)
(***************************************************************************)

VersionEquals == "VersionEquals"

VersionEqualsPrereleaseMismatch == "VersionEqualsPrereleaseMismatch"

VersionLessThan == "VersionLessThan"

VersionGreaterThan == "VersionGreaterThan"

\* VersionComparatorList.Contains: every member of list2 occurs in list1
ListContains(list1, list2) ==
    \A j \in 1..Len(list2) : \E i \in 1..Len(list1) : list1[i] = list2[j]

\* the loop of NewComparableVersion putting each component before the others
RECURSIVE ParseComponentsReversed(_, _, _)
ParseComponentsReversed(parts, k, acc) ==
    IF k > Len(parts) THEN [Version |-> acc, err |-> FALSE]
    ELSE LET r == ParseInt(parts[k])
         IN  IF ~r.ok THEN [Version |-> acc, err |-> TRUE]
             ELSE ParseComponentsReversed(parts, k + 1, <<r.val>> \o acc)

\* the loop of NewComparableVersion over the dot-separated components:
\* stops at the first component ParseInt rejects
RECURSIVE ParseComponents(_, _, _)
ParseComponents(parts, k, acc) ==
    IF k > Len(parts) THEN [Version |-> acc, err |-> FALSE]
    ELSE LET r == ParseInt(parts[k])
         IN  IF ~r.ok THEN [Version |-> acc, err |-> TRUE]
             ELSE ParseComponents(parts, k + 1, Append(acc, r.val))

\* NewComparableVersion that takes no dot after the dash
NewComparableVersionDashLast(semver) ==
    LET hasDash     == ContainsChar(semver, "-")
        splitSemver == Split(semver, "-")
    IN  IF hasDash /\ (Len(splitSemver) > 2 \/ ContainsChar(splitSemver[2], "."))
        THEN [Version |-> <<>>, Prerelease |-> "", err |-> TRUE]
        ELSE LET verStr == IF hasDash THEN splitSemver[1] ELSE semver
                 pre    == IF hasDash THEN splitSemver[2] ELSE ""
                 comps  == ParseComponents(Split(verStr, "."), 1, <<>>)
             IN  [Version |-> comps.Version, Prerelease |-> pre, err |-> comps.err]

NewComparableVersion(semver) ==
    LET hasDash     == ContainsChar(semver, "-")
        splitSemver == Split(semver, "-")
    IN  IF hasDash /\ Len(splitSemver) > 2
        THEN [Version |-> <<>>, Prerelease |-> "", err |-> TRUE]
        ELSE LET verStr == IF hasDash THEN splitSemver[1] ELSE semver
                 pre    == IF hasDash THEN splitSemver[2] ELSE ""
                 comps  == ParseComponents(Split(verStr, "."), 1, <<>>)
             IN  [Version |-> comps.Version, Prerelease |-> pre, err |-> comps.err]

\* NewVersionComparator whose < and > match equal versions with different
\* prereleases, as <= and >= do
NewVersionComparatorLenient(compstring) ==
    CASE compstring = "<"  -> [comparators |->
               <<VersionEqualsPrereleaseMismatch, VersionLessThan>>, err |-> FALSE]
      [] compstring = ">"  -> [comparators |->
               <<VersionEqualsPrereleaseMismatch, VersionGreaterThan>>, err |-> FALSE]
      [] compstring = "="  -> [comparators |-> <<VersionEquals>>, err |-> FALSE]
      [] compstring = "<=" -> [comparators |->
               <<VersionEquals, VersionEqualsPrereleaseMismatch, VersionLessThan>>,
               err |-> FALSE]
      [] compstring = ">=" -> [comparators |->
               <<VersionEquals, VersionEqualsPrereleaseMismatch, VersionGreaterThan>>,
               err |-> FALSE]
      [] OTHER             -> [comparators |-> <<>>, err |-> TRUE]

NewVersionComparator(compstring) ==
    CASE compstring = "<"  -> [comparators |-> <<VersionLessThan>>, err |-> FALSE]
      [] compstring = ">"  -> [comparators |-> <<VersionGreaterThan>>, err |-> FALSE]
      [] compstring = "="  -> [comparators |-> <<VersionEquals>>, err |-> FALSE]
      [] compstring = "<=" -> [comparators |->
               <<VersionEquals, VersionEqualsPrereleaseMismatch, VersionLessThan>>,
               err |-> FALSE]
      [] compstring = ">=" -> [comparators |->
               <<VersionEquals, VersionEqualsPrereleaseMismatch, VersionGreaterThan>>,
               err |-> FALSE]
      [] OTHER             -> [comparators |-> <<>>, err |-> TRUE]

\* CompareIntArray that appends no zero to the shorter array
RECURSIVE CompareIntArrayNoPad(_, _)
CompareIntArrayNoPad(va1, va2) ==
    IF Len(va1) = 0 \/ Len(va2) = 0
    THEN IF Len(va1) = Len(va2) THEN VersionEquals
         ELSE IF Len(va1) > 0 THEN VersionGreaterThan
         ELSE VersionLessThan
    ELSE IF va1[1] = va2[1] THEN CompareIntArrayNoPad(Tail(va1), Tail(va2))
         ELSE IF va1[1] > va2[1] THEN VersionGreaterThan
         ELSE VersionLessThan

RECURSIVE CompareIntArray(_, _)
CompareIntArray(va1, va2) ==
    IF Len(va1) = 0 \/ Len(va2) = 0
    THEN IF Len(va1) = Len(va2) THEN VersionEquals
         ELSE IF Len(va1) > 0 THEN VersionGreaterThan
         ELSE VersionLessThan
    ELSE IF va1[1] = va2[1]
         THEN IF Len(va1) = 1 /\ Len(va2) = 1 THEN VersionEquals
              ELSE LET a1 == IF Len(va1) <= 1 THEN Append(va1, 0) ELSE va1
                       a2 == IF Len(va1) > 1 /\ Len(va2) <= 1
                             THEN Append(va2, 0) ELSE va2
                   IN  CompareIntArray(Tail(a1), Tail(a2))
         ELSE IF va1[1] > va2[1] THEN VersionGreaterThan
         ELSE VersionLessThan

\* Compare that leaves the Prerelease tags out
CompareNumericOnly(cv1, cv2) == CompareIntArray(cv1.Version, cv2.Version)

\* Compare that looks at the Prerelease tags before the numbers
ComparePrereleaseFirst(cv1, cv2) ==
    IF cv1.Prerelease # cv2.Prerelease THEN VersionEqualsPrereleaseMismatch
    ELSE CompareIntArray(cv1.Version, cv2.Version)

Compare(cv1, cv2) ==
    LET vResult == CompareIntArray(cv1.Version, cv2.Version)
    IN  IF vResult = VersionEquals /\ cv1.Prerelease # cv2.Prerelease
        THEN VersionEqualsPrereleaseMismatch
        ELSE vResult

(***************************************************************************)
(* regexp, restricted to the patterns the model draws: literal characters, *)
(* "." (any character), a leading "^", a trailing "$", and "(" which, left *)
(* unclosed, does not compile                                              *)
(***************************************************************************)

\* regexp.Compile succeeds
RegexpCompiles(pattern) == ~ContainsChar(pattern, "(")

\* Regexp.Match: unanchored search
RegexpMatch(pattern, s) ==
    LET anchS == HasPrefix(pattern, "^")
        p1    == IF anchS THEN SubSeq(pattern, 2, Len(pattern)) ELSE pattern
        anchE == Len(p1) > 0 /\ CharAt(p1, Len(p1)) = "$"
        body  == IF anchE THEN SubSeq(p1, 1, Len(p1) - 1) ELSE p1
        MatchAt(i) ==
            /\ i + Len(body) - 1 <= Len(s)
            /\ \A k \in 1..Len(body) :
                  \/ CharAt(body, k) = "."
                  \/ CharAt(body, k) = CharAt(s, i + k - 1)
    IN  \E i \in 1..(Len(s) + 1) :
            /\ MatchAt(i)
            /\ anchS => i = 1
            /\ anchE => i + Len(body) - 1 = Len(s)

(***************************************************************************)
(* Catalog, Version, Provider (vagrant_catalog.go)                         *)
(***************************************************************************)

\* the zero value of Catalog, which is also what the bytes {} decode to
ZeroCatalog == [Name |-> "", Description |-> "", Versions |-> <<>>]

Provider(name, url, checksumType, checksum) ==
    [Name |-> name, Url |-> url, ChecksumType |-> checksumType, Checksum |-> checksum]

Version(version, providers) == [Version |-> version, Providers |-> providers]

\* Catalog.Equals: field by field, Versions and Providers in order
CatalogEquals(c1, c2) ==
    /\ c1.Name = c2.Name
    /\ c1.Description = c2.Description
    /\ Len(c1.Versions) = Len(c2.Versions)
    /\ \A i \in 1..Len(c1.Versions) :
          /\ c1.Versions[i].Version = c2.Versions[i].Version
          /\ Len(c1.Versions[i].Providers) = Len(c2.Versions[i].Providers)
          /\ \A j \in 1..Len(c1.Versions[i].Providers) :
                c1.Versions[i].Providers[j] = c2.Versions[i].Providers[j]

\* BoxUriFromCatalogUri that puts the box file next to the catalog
BoxUriBesideCatalog(catalogUri, name, version, provider) ==
    LET lastSlashIdx == LastIndex(catalogUri, "/")
    IN  IF lastSlashIdx < 0
        THEN [boxUri |-> "", err |-> TRUE]
        ELSE [boxUri |-> SubSeq(catalogUri, 1, lastSlashIdx) \o "/"
                           \o name \o "_" \o version \o "_" \o provider \o ".box",
              err    |-> FALSE]

BoxUriFromCatalogUri(catalogUri, name, version, provider) ==
    LET lastSlashIdx == LastIndex(catalogUri, "/")
    IN  IF lastSlashIdx < 0
        THEN [boxUri |-> "", err |-> TRUE]
        ELSE [boxUri |-> SubSeq(catalogUri, 1, lastSlashIdx) \o "/" \o name \o "/"
                           \o name \o "_" \o version \o "_" \o provider \o ".box",
              err    |-> FALSE]

\* the lowest member of a set of indexes, 0 when there is none
FirstOf(hits) == IF hits = {} THEN 0 ELSE CHOOSE i \in hits : \A j \in hits : i <= j

\* a lookup of the Version that takes 1.0 and 1.0.0 for the same version
FindVersionSemantic(versions, version) ==
    LET cv == NewComparableVersion(version)
        Same(text) ==
            \/ text = version
            \/ /\ ~cv.err
               /\ ~NewComparableVersion(text).err
               /\ Compare(NewComparableVersion(text), cv) = VersionEquals
    IN  FirstOf({v \in 1..Len(versions) : Same(versions[v].Version)})

\* a lookup of the Version that finds none
FindVersionNone(versions, version) == 0

\* the loop of Catalog.AddBox over c.Versions: the index of the first Version
\* whose string is version, 0 when there is none
FindVersion(versions, version) ==
    FirstOf({v \in 1..Len(versions) : versions[v].Version = version})

\* a lookup of the Provider that finds none
FindProviderNone(providers, provider) == 0

\* the loop of Catalog.AddBox over the Providers of the Version it found: the
\* index of the first Provider named provider, 0 when there is none
FindProvider(providers, provider) ==
    FirstOf({p \in 1..Len(providers) : providers[p].Name = provider})

\* Catalog.AddBox that does not append a new Provider to a Version it found
CatalogAddBoxNoAppend(c, catalogUri, name, description, version, provider, checksumType, checksum) ==
    LET uri == BoxUriFromCatalogUri(catalogUri, name, version, provider)
        c1  == [c EXCEPT !.Name = IF c.Name = "" THEN name ELSE @,
                         !.Description = description]
    IN  IF c.Name # "" /\ name # "" /\ c.Name # name
        THEN [catalog |-> c, err |-> "NameMismatch"]
        ELSE IF \E v \in 1..Len(c1.Versions) : c1.Versions[v].Version = version
        THEN [catalog |-> c1, err |-> "nil"]
        ELSE [catalog |-> [c1 EXCEPT !.Versions = Append(@,
                              Version(version, <<Provider(provider, uri.boxUri,
                                                          checksumType, checksum)>>))],
              err |-> "nil"]

\* Catalog.AddBox: the catalog after the call and the error it returns.
\* The "name could not be determined" error is assigned to err and then
\* overwritten by the result of BoxUriFromCatalogUri (boxUri, err := ...).
CatalogAddBox(c, catalogUri, name, description, version, provider, checksumType, checksum) ==
    IF c.Name # "" /\ name # "" /\ c.Name # name
    THEN [catalog |-> c, err |-> "NameMismatch"]
    ELSE
      LET named  == IF name # "" /\ c.Name = "" THEN [c EXCEPT !.Name = name] ELSE c
          c1     == [named EXCEPT !.Description = description]
          uri    == BoxUriFromCatalogUri(catalogUri, name, version, provider)
          newProvider == Provider(provider, uri.boxUri, checksumType, checksum)
          newVersion  == Version(version, <<newProvider>>)
          vidx   == FindVersion(c1.Versions, version)
      IN  IF uri.err THEN [catalog |-> c1, err |-> "InvalidUri"]
          ELSE IF vidx = 0
          THEN [catalog |-> [c1 EXCEPT !.Versions = Append(@, newVersion)],
                err |-> "nil"]
          ELSE
            LET pidx == FindProvider(c1.Versions[vidx].Providers, provider)
            IN  IF pidx = 0
                THEN [catalog |-> [c1 EXCEPT !.Versions[vidx].Providers =
                                                  Append(@, newProvider)],
                      err |-> "nil"]
                ELSE [catalog |-> [c1 EXCEPT !.Versions[vidx].Providers[pidx] =
                                 [@ EXCEPT !.Url = uri.boxUri,
                                           !.ChecksumType = checksumType,
                                           !.Checksum = checksum]],
                      err |-> "nil"]

\* the prefixes with the one-character ones first
QueryPrefixesShortFirst == <<">", "<", "=", ">=", "<=">>

QueryPrefixes == <<">=", "<=", ">", "<", "=">>

\* parseVersionQueryString: the first prefix of QueryPrefixes that semver starts
\* with decides the qualifier; without one the qualifier is the bare-version one
parseVersionQueryString(semver) ==
    LET zero == [Version |-> <<>>, Prerelease |-> ""]
        hits == {k \in 1..Len(QueryPrefixes) : HasPrefix(semver, QueryPrefixes[k])}
    IN  IF Len(semver) = 0
        THEN [version |-> zero, qualifier |-> <<>>, err |-> FALSE]
        ELSE IF hits # {}
        THEN LET prefix == QueryPrefixes[CHOOSE k \in hits : \A j \in hits : k <= j]
                 qual   == NewVersionComparator(prefix)
                 cv     == NewComparableVersion(SubSeq(semver, Len(prefix) + 1, Len(semver)))
             IN  IF qual.err
                 THEN [version |-> zero, qualifier |-> qual.comparators, err |-> TRUE]
                 ELSE [version   |-> [Version |-> cv.Version, Prerelease |-> cv.Prerelease],
                       qualifier |-> qual.comparators,
                       err       |-> cv.err]
        ELSE LET cv == NewComparableVersion(semver)
             IN  [version   |-> [Version |-> cv.Version, Prerelease |-> cv.Prerelease],
                  qualifier |-> <<VersionEquals, VersionEqualsPrereleaseMismatch>>,
                  err       |-> cv.err]

CatalogQueryParams(version, provider) == [Version |-> version, Provider |-> provider]

\* the loop of QueryCatalogVersions comparing the query against the Version
RECURSIVE QueryVersionsLoopSwapped(_, _, _, _, _)
QueryVersionsLoopSwapped(versions, k, queryVers, queryQual, acc) ==
    IF k > Len(versions) THEN [Versions |-> acc, err |-> FALSE]
    ELSE LET cVers == NewComparableVersion(versions[k].Version)
         IN  IF cVers.err THEN [Versions |-> acc, err |-> TRUE]
             ELSE LET comparator == Compare(queryVers, cVers)
                  IN  QueryVersionsLoopSwapped(versions, k + 1, queryVers, queryQual,
                          IF ListContains(queryQual, <<comparator>>)
                          THEN Append(acc, versions[k]) ELSE acc)

\* the loop of QueryCatalogVersions: returns at the first Version string that
\* does not parse, with what it has collected so far
RECURSIVE QueryVersionsLoop(_, _, _, _, _)
QueryVersionsLoop(versions, k, queryVers, queryQual, acc) ==
    IF k > Len(versions) THEN [Versions |-> acc, err |-> FALSE]
    ELSE LET cVers == NewComparableVersion(versions[k].Version)
         IN  IF cVers.err THEN [Versions |-> acc, err |-> TRUE]
             ELSE LET comparator == Compare(cVers, queryVers)
                  IN  QueryVersionsLoop(versions, k + 1, queryVers, queryQual,
                          IF ListContains(queryQual, <<comparator>>)
                          THEN Append(acc, versions[k]) ELSE acc)

\* QueryCatalogVersions for which the empty query selects no Version
QueryVersionsParsedEmptyNone(catalog, q) ==
    LET empty == [Name |-> catalog.Name, Description |-> catalog.Description,
                  Versions |-> <<>>]
    IN  IF q.err THEN [result |-> empty, err |-> TRUE]
        ELSE IF Len(q.version.Version) = 0 THEN [result |-> empty, err |-> FALSE]
        ELSE LET r == QueryVersionsLoop(catalog.Versions, 1, q.version, q.qualifier, <<>>)
             IN  [result |-> [empty EXCEPT !.Versions = r.Versions], err |-> r.err]

\* QueryCatalogVersions once parseVersionQueryString has returned q
QueryVersionsParsed(catalog, q) ==
    LET empty == [Name |-> catalog.Name, Description |-> catalog.Description,
                  Versions |-> <<>>]
    IN  IF q.err THEN [result |-> empty, err |-> TRUE]
        ELSE IF Len(q.version.Version) = 0 THEN [result |-> catalog, err |-> FALSE]
        ELSE LET r == QueryVersionsLoop(catalog.Versions, 1, q.version, q.qualifier, <<>>)
             IN  [result |-> [empty EXCEPT !.Versions = r.Versions], err |-> r.err]

QueryCatalogVersions(catalog, versionquery) ==
    QueryVersionsParsed(catalog, parseVersionQueryString(versionquery))

\* the inner loop of QueryCatalogProviders keeping the Providers whose Name is
\* the query text
RECURSIVE MatchingProvidersWholeName(_, _, _, _)
MatchingProvidersWholeName(providers, k, providerquery, acc) ==
    IF k > Len(providers) THEN acc
    ELSE MatchingProvidersWholeName(providers, k + 1, providerquery,
             IF providers[k].Name = providerquery
             THEN Append(acc, providers[k]) ELSE acc)

\* the inner loop of QueryCatalogProviders
RECURSIVE MatchingProviders(_, _, _, _)
MatchingProviders(providers, k, providerquery, acc) ==
    IF k > Len(providers) THEN acc
    ELSE MatchingProviders(providers, k + 1, providerquery,
             IF RegexpMatch(providerquery, providers[k].Name)
             THEN Append(acc, providers[k]) ELSE acc)

\* the outer loop of QueryCatalogProviders
RECURSIVE QueryProvidersLoop(_, _, _, _)
QueryProvidersLoop(versions, k, providerquery, acc) ==
    IF k > Len(versions) THEN acc
    ELSE LET newVersion == Version(versions[k].Version,
                 MatchingProviders(versions[k].Providers, 1, providerquery, <<>>))
         IN  QueryProvidersLoop(versions, k + 1, providerquery,
                 IF Len(newVersion.Providers) > 0 THEN Append(acc, newVersion) ELSE acc)

\* QueryCatalogProviders: regexp.MustCompile panics on a pattern that does not compile
QueryCatalogProviders(catalog, providerquery) ==
    IF ~RegexpCompiles(providerquery)
    THEN [result |-> ZeroCatalog, err |-> FALSE, panic |-> TRUE]
    ELSE [result |-> [Name |-> catalog.Name, Description |-> catalog.Description,
                      Versions |-> QueryProvidersLoop(catalog.Versions, 1, providerquery, <<>>)],
          err |-> FALSE, panic |-> FALSE]

\* QueryCatalog once QueryCatalogProviders has returned pResult
QueryCatalogByProvider(catalog, pResult) ==
    IF pResult.panic THEN pResult
    ELSE [result |-> [pResult.result EXCEPT !.Name = catalog.Name,
                          !.Description = catalog.Description],
          err |-> FALSE, panic |-> FALSE]

\* QueryCatalog once QueryCatalogVersions has returned vResult
QueryCatalogByVersion(catalog, params, vResult) ==
    IF vResult.err
    THEN [result |-> ZeroCatalog, err |-> TRUE, panic |-> FALSE]
    ELSE QueryCatalogByProvider(catalog,
             QueryCatalogProviders(vResult.result, params.Provider))

QueryCatalog(catalog, params) ==
    QueryCatalogByVersion(catalog, params, QueryCatalogVersions(catalog, params.Version))

BoxReference(version, providerName, uri) ==
    [Version |-> version, ProviderName |-> providerName, Uri |-> uri]

\* BoxReference.Equals that compares the Version alone
BoxReferenceEqualsVersionOnly(br1, br2) == br1.Version = br2.Version

\* BoxReference.Equals that compares all three fields
BoxReferenceEqualsAllFields(br1, br2) == br1 = br2

\* BoxReference.Equals: Version and ProviderName only
BoxReferenceEquals(br1, br2) ==
    br1.Version = br2.Version /\ br1.ProviderName = br2.ProviderName

\* BoxReferenceList.Contains
RefsContain(list, br) == \E i \in 1..Len(list) : BoxReferenceEquals(list[i], br)

RECURSIVE ProviderRefs(_, _, _)
ProviderRefs(v, k, acc) ==
    IF k > Len(v.Providers) THEN acc
    ELSE ProviderRefs(v, k + 1,
             Append(acc, BoxReference(v.Version, v.Providers[k].Name, v.Providers[k].Url)))

RECURSIVE BoxReferencesFrom(_, _, _)
BoxReferencesFrom(versions, k, acc) ==
    IF k > Len(versions) THEN acc
    ELSE BoxReferencesFrom(versions, k + 1, ProviderRefs(versions[k], 1, acc))

\* Catalog.BoxReferences
BoxReferences(catalog) == BoxReferencesFrom(catalog.Versions, 1, <<>>)

RECURSIVE KeepProviders(_, _, _, _)
KeepProviders(v, k, references, acc) ==
    IF k > Len(v.Providers) THEN acc
    ELSE KeepProviders(v, k + 1, references,
             IF ~RefsContain(references, BoxReference(v.Version, v.Providers[k].Name, ""))
             THEN Append(acc, v.Providers[k]) ELSE acc)

RECURSIVE DeleteReferencesLoop(_, _, _, _)
DeleteReferencesLoop(versions, k, references, acc) ==
    IF k > Len(versions) THEN acc
    ELSE LET newVersion == Version(versions[k].Version,
                 KeepProviders(versions[k], 1, references, <<>>))
         IN  DeleteReferencesLoop(versions, k + 1, references,
                 IF Len(newVersion.Providers) > 0 THEN Append(acc, newVersion) ELSE acc)

\* Catalog.DeleteReferences
DeleteReferences(catalog, references) ==
    [Name |-> catalog.Name, Description |-> catalog.Description,
     Versions |-> DeleteReferencesLoop(catalog.Versions, 1, references, <<>>)]

\* DeleteQuery once QueryCatalog has returned deleteCatalog
DeleteQueried(catalog, deleteCatalog) ==
    IF deleteCatalog.panic
    THEN [result |-> ZeroCatalog, err |-> FALSE, panic |-> TRUE]
    ELSE IF deleteCatalog.err
    THEN [result |-> ZeroCatalog, err |-> TRUE, panic |-> FALSE]
    ELSE [result |-> DeleteReferences(catalog, BoxReferences(deleteCatalog.result)),
          err |-> FALSE, panic |-> FALSE]

\* Catalog.DeleteQuery
DeleteQuery(catalog, param) == DeleteQueried(catalog, QueryCatalog(catalog, param))

(***************************************************************************)
(* Catalog bytes and their JSON encoding (backend_manager.go)              *)
(***************************************************************************)

\* the catalog object does not exist in the store
NoObject == [kind |-> "absent", cat |-> ZeroCatalog]

\* bytes that are not JSON (a damaged or hand-edited catalog file)
GarbageBytes == [kind |-> "garbage", cat |-> ZeroCatalog]

\* zero bytes: what an empty download buffer holds
EmptyBytes == [kind |-> "empty", cat |-> ZeroCatalog]

\* the bytes {}
EmptyObjectBytes == [kind |-> "json", cat |-> ZeroCatalog]

\* json.MarshalIndent(catalog, "", "  ")
JsonMarshalIndent(catalog) == [kind |-> "json", cat |-> catalog]

\* json.Unmarshal(catalogBytes, &catalog): a syntax error leaves catalog untouched
JsonUnmarshal(catalogBytes) ==
    IF catalogBytes.kind = "json"
    THEN [catalog |-> catalogBytes.cat, err |-> "nil"]
    ELSE [catalog |-> ZeroCatalog, err |-> "CatalogCorrupt"]

(***************************************************************************)
(* CaryatidS3Backend                                                       *)
(***************************************************************************)

BucketChars == "abcdefghijklmnopqrstuvwxyzABCDEFGHIJKLMNOPQRSTUVWXYZ0123456789-_"

\* uri2s3location: ^s3://([a-zA-Z0-9\-_]+)/(.*)
uri2s3location(uri) ==
    LET rest  == SubSeq(uri, 6, Len(uri))
        cut   == {i \in 1..Len(rest) : CharAt(rest, i) = "/"}
        first == IF cut = {} THEN 0 ELSE CHOOSE i \in cut : \A k \in cut : i <= k
        ok    == /\ HasPrefix(uri, "s3://")
                 /\ first > 1
                 /\ \A i \in 1..(first - 1) : ContainsChar(BucketChars, CharAt(rest, i))
    IN  IF ok
        THEN [Bucket |-> SubSeq(rest, 1, first - 1),
              Resource |-> SubSeq(rest, first + 1, Len(rest)), err |-> FALSE]
        ELSE [Bucket |-> "", Resource |-> "", err |-> TRUE]

S3Location(bucket, resource) == [Bucket |-> bucket, Resource |-> resource]

\* what S3Downloader.Download can answer, apart from the object itself or
\* NoSuchKey, which the store's content decides
DownloadOutcomes == {"ok", "NoSuchBucket", "AwsError", "TransportError"}

\* GetCatalogBytes that returns every error of the download, the one for a
\* missing key too
S3GetCatalogBytesEveryError(object, dl) ==
    CASE dl = "ok" /\ object # NoObject -> [bytes |-> object, err |-> "nil"]
      [] dl = "ok" /\ object = NoObject -> [bytes |-> [kind |-> "empty", cat |-> ZeroCatalog],
                                            err |-> "NoSuchKey"]
      [] OTHER                          -> [bytes |-> [kind |-> "empty", cat |-> ZeroCatalog],
                                            err |-> dl]

\* CaryatidS3Backend.GetCatalogBytes. An error that is not an awserr.Error
\* ("TransportError") matches no case of the switch.
S3GetCatalogBytes(object, dl) ==
    CASE dl = "ok" /\ object # NoObject -> [bytes |-> object, err |-> "nil"]
      [] dl = "ok" /\ object = NoObject -> [bytes |-> EmptyObjectBytes, err |-> "nil"]
      [] dl = "NoSuchBucket"            -> [bytes |-> EmptyBytes, err |-> "NoSuchBucket"]
      [] dl = "AwsError"                -> [bytes |-> EmptyBytes, err |-> "AwsError"]
      [] OTHER                          -> [bytes |-> EmptyBytes, err |-> "nil"]

(***************************************************************************)
(* net/url and path/filepath, as the backends use them                     *)
(***************************************************************************)

SchemeChars == LowerChars \o UpperChars \o "0123456789+-."

HexChars == "0123456789abcdefABCDEF"

\* the position of the ':' that ends the scheme (url.getScheme): 0 when the
\* text has no scheme, -1 when it starts with ':' (missing protocol scheme)
SchemeEnd(uri) ==
    LET stops == {i \in 1..Len(uri) :
                     \/ ~ContainsChar(SchemeChars, CharAt(uri, i))
                     \/ (i = 1 /\ ~ContainsChar(LowerChars \o UpperChars, CharAt(uri, i)))}
        stop  == IF stops = {} THEN 0 ELSE CHOOSE i \in stops : \A k \in stops : i <= k
    IN  IF stop = 0 \/ CharAt(uri, stop) # ":" THEN 0
        ELSE IF stop = 1 THEN -1
        ELSE stop

\* a '%' that two hexadecimal digits do not follow (url.EscapeError)
BadEscape(text) ==
    \E i \in 1..Len(text) :
        /\ CharAt(text, i) = "%"
        /\ \/ i + 2 > Len(text)
           \/ ~ContainsChar(HexChars, CharAt(text, i + 1))
           \/ ~ContainsChar(HexChars, CharAt(text, i + 2))

\* url.Parse, for URIs without query, fragment or user: the Scheme in lower
\* case and the Path, which is empty for an opaque URI
UrlParse(uri) ==
    LET colon == SchemeEnd(uri)
        rest  == IF colon > 0 THEN SubSeq(uri, colon + 1, Len(uri)) ELSE uri
        afterHost == SubSeq(rest, 3, Len(rest))
        slashes   == {i \in 1..Len(afterHost) : CharAt(afterHost, i) = "/"}
        pathAt    == IF slashes = {} THEN Len(afterHost) + 1
                     ELSE CHOOSE i \in slashes : \A k \in slashes : i <= k
    IN  IF colon < 0 \/ BadEscape(uri) THEN [Scheme |-> "", Path |-> "", err |-> TRUE]
        ELSE [Scheme |-> IF colon > 0 THEN ToLower(SubSeq(uri, 1, colon - 1)) ELSE "",
              Path   |-> IF HasPrefix(rest, "//")
                         THEN SubSeq(afterHost, pathAt, Len(afterHost))
                         ELSE IF colon > 0 /\ ~HasPrefix(rest, "/") THEN ""
                         ELSE rest,
              err    |-> FALSE]

\* filepath.Clean of a rooted path, segment by segment: empty segments and "."
\* are dropped, ".." drops the segment before it
RECURSIVE CleanSegments(_, _, _)
CleanSegments(parts, k, acc) ==
    IF k > Len(parts) THEN acc
    ELSE CleanSegments(parts, k + 1,
            IF parts[k] \in {"", "."} THEN acc
            ELSE IF parts[k] = ".."
                 THEN (IF Len(acc) = 0 THEN acc ELSE SubSeq(acc, 1, Len(acc) - 1))
            ELSE Append(acc, parts[k]))

RECURSIVE JoinRooted(_, _)
JoinRooted(segments, k) ==
    IF k > Len(segments) THEN ""
    ELSE "/" \o segments[k] \o JoinRooted(segments, k + 1)

FilepathClean(path) ==
    LET segments == CleanSegments(Split(path, "/"), 1, <<>>)
    IN  IF Len(segments) = 0 THEN "/" ELSE JoinRooted(segments, 1)

(***************************************************************************)
(* CaryatidLocalFileBackend                                                *)
(***************************************************************************)

\* what ioutil.ReadFile can answer, apart from the file itself or "does not
\* exist", which the file system's content decides
ReadOutcomes == {"ok", "ReadFailed"}

\* CaryatidLocalFileBackend.GetCatalogBytes
LocalGetCatalogBytes(file, rd) ==
    CASE rd = "ok" /\ file # NoObject -> [bytes |-> file, err |-> "nil"]
      [] rd = "ok" /\ file = NoObject -> [bytes |-> EmptyObjectBytes, err |-> "nil"]
      [] OTHER                        -> [bytes |-> EmptyBytes, err |-> rd]

\* getValidLocalPath once the URI is parsed: the Path without the '/' before a
\* drive letter, cleaned
ValidLocalPath(u) ==
    IF u.err THEN [outpath |-> "", err |-> "UriUnparsable"]
    ELSE IF u.Path = "" THEN [outpath |-> "", err |-> "NoPath"]
    ELSE IF /\ Len(u.Path) >= 3
            /\ ContainsChar(LowerChars \o UpperChars, CharAt(u.Path, 2))
            /\ CharAt(u.Path, 3) = ":"
         THEN [outpath |-> SubSeq(u.Path, 2, Len(u.Path)), err |-> "nil"]
    ELSE [outpath |-> FilepathClean(u.Path), err |-> "nil"]

\* getValidLocalPath
getValidLocalPath(uri) == ValidLocalPath(UrlParse(uri))

\* os.Remove of a path, and what DeleteFile returns for it
RemovePath(files, path, outcome) ==
    IF path.err # "nil" THEN [files |-> files, err |-> path.err]
    ELSE IF outcome # "ok" THEN [files |-> files, err |-> outcome]
    ELSE IF path.outpath \notin files THEN [files |-> files, err |-> "NotExist"]
    ELSE [files |-> files \ {path.outpath}, err |-> "nil"]

\* what os.Remove can answer, apart from "does not exist", which the file
\* system's content decides
RemoveOutcomes == {"ok", "RemoveFailed"}

\* DeleteFile of the local file backend without the comparison of the scheme
LocalDeleteFileAnyScheme(files, uri, outcome) ==
    RemovePath(files, getValidLocalPath(uri), outcome)

\* CaryatidLocalFileBackend.DeleteFile once the URI is parsed
LocalDeleteParsed(files, u, uri, outcome) ==
    IF u.err THEN [files |-> files, err |-> "UriUnparsable"]
    ELSE IF u.Scheme # "file" THEN [files |-> files, err |-> "SchemeMismatch"]
    ELSE RemovePath(files, getValidLocalPath(uri), outcome)

\* CaryatidLocalFileBackend.DeleteFile on the files of a file system: the files
\* after the call and the error
LocalDeleteFile(files, uri, outcome) ==
    LocalDeleteParsed(files, UrlParse(uri), uri, outcome)

\* Scheme() of the two backends
Scheme(backend) == IF backend = "s3" THEN "s3" ELSE "file"

\* CaryatidS3Backend.DeleteFile on the box files of a store: the files after
\* the call and the error. DeleteObject can fail ("DeleteFailed": nothing
\* removed), and so can the wait for the object to be gone ("WaitFailed": the
\* object is removed all the same).
S3DeleteFile(files, uri, outcome) ==
    LET fileLoc == uri2s3location(uri)
    IN  IF fileLoc.err THEN [files |-> files, err |-> "InvalidS3Uri"]
        ELSE [files |-> IF outcome \in {"ok", "WaitFailed"}
                        THEN files \ {S3Location(fileLoc.Bucket, fileLoc.Resource)}
                        ELSE files,
              err   |-> IF outcome = "ok" THEN "nil" ELSE outcome]

\* the key of CopyBoxFile without its case for a catalog key that has no '/'
S3BoxFileLocNoRootCase(catalogLocation, boxName, boxVersion, boxProvider) ==
    LET lastSlashIdx == LastIndex(catalogLocation.Resource, "/")
    IN  [Bucket |-> catalogLocation.Bucket,
         Resource |-> SubSeq(catalogLocation.Resource, 1, lastSlashIdx) \o "/"
                        \o boxName \o "/" \o boxName \o "_" \o boxVersion \o "_"
                        \o boxProvider \o ".box"]

\* the key CaryatidS3Backend.CopyBoxFile uploads the box to
S3BoxFileLoc(catalogLocation, boxName, boxVersion, boxProvider) ==
    LET lastSlashIdx == LastIndex(catalogLocation.Resource, "/")
        leaf == boxName \o "/" \o boxName \o "_" \o boxVersion \o "_" \o boxProvider \o ".box"
    IN  S3Location(catalogLocation.Bucket,
            IF lastSlashIdx < 0 THEN leaf
            ELSE SubSeq(catalogLocation.Resource, 1, lastSlashIdx) \o "/" \o leaf)

(***************************************************************************)
(* BackendManager                                                          *)
(***************************************************************************)

\* BackendManager.GetCatalog, given the answer of Backend.GetCatalogBytes
GetCatalog(got) ==
    IF got.err # "nil" THEN [catalog |-> ZeroCatalog, err |-> got.err]
    ELSE JsonUnmarshal(got.bytes)

\* The head of BackendManager.AddBox, up to the call of SaveCatalog. The error
\* of GetCatalog is assigned to err, and the version check assigns err again
\* before anything tests it: only the version check's error is returned here.
AddBoxPrepare(got, catalogUri, name, description, version, provider, checksumType, checksum) ==
    LET fetched == GetCatalog(got)
        err     == IF NewComparableVersion(version).err THEN "MalformedVersion" ELSE "nil"
    IN  IF err # "nil" THEN [catalog |-> fetched.catalog, err |-> err]
        ELSE CatalogAddBox(fetched.catalog, catalogUri, name, description, version,
                           provider, checksumType, checksum)

\* DeleteBox once BoxReferences has returned refs
DeleteBoxReferenced(fetched, deleteCatalog, refs) ==
    LET stop(err, panic) ==
            [catalog |-> fetched.catalog, refs |-> <<>>, err |-> err, panic |-> panic]
    IN  IF fetched.err # "nil" THEN stop(fetched.err, FALSE)
        ELSE IF deleteCatalog.panic THEN stop("nil", TRUE)
        ELSE IF deleteCatalog.err THEN stop("QueryFailed", FALSE)
        ELSE [catalog |-> DeleteReferences(fetched.catalog, refs),
              refs |-> refs, err |-> "nil", panic |-> FALSE]

\* DeleteBox once QueryCatalog has returned deleteCatalog
DeleteBoxQueried(fetched, deleteCatalog) ==
    DeleteBoxReferenced(fetched, deleteCatalog, BoxReferences(deleteCatalog.result))

\* DeleteBox once GetCatalog has returned fetched
DeleteBoxFetched(fetched, params) ==
    DeleteBoxQueried(fetched, QueryCatalog(fetched.catalog, params))

\* The head of BackendManager.DeleteBox, up to the call of SaveCatalog
DeleteBoxPrepare(got, params) == DeleteBoxFetched(GetCatalog(got), params)

(***************************************************************************)
(* The program as a state machine: writers (separate invocations of the    *)
(* caryatid command or of the Packer post-processor) run                   *)
(* BackendManager.AddBox and BackendManager.DeleteBox against one catalog  *)
(* URI. Every call of a Backend method is one step.                        *)
(***************************************************************************)

CatalogUri == "s3://bucket/boxes/testbox.json"

\* CaryatidS3Backend.SetManager: CatalogLocation
CatalogLocation == uri2s3location(CatalogUri)

Writers == {"w1", "w2"}

BoxNames == {"testbox"}

AddVersions == {"1.0", "1.x"}

ProviderNames == {"vbox", "vmware"}

BoxDescription == "a box for testing"

ChecksumType == "sha1"

Checksums == {"d3597d"}

\* the queries DeleteBox is called with
DeleteQueries ==
    {CatalogQueryParams("", ""), CatalogQueryParams("<2", ""),
     CatalogQueryParams("1", "^vm"), CatalogQueryParams("v1", ""),
     CatalogQueryParams("", "(")}

\* no writer starts an operation once MaxOps operations have been started
MaxOps == 3

\* at most MaxFaults Backend calls fail in one run
MaxFaults == 1

UploadOutcomes == {"ok", "UploadFailed"}

CopyOutcomes == {"ok", "OpenFailed", "UploadFailed"}

DeleteOutcomes == {"ok", "DeleteFailed", "WaitFailed"}

NoParams == CatalogQueryParams("", "")

VARIABLES
    object,     \* the bytes of the catalog object in the store, or NoObject
    boxes,      \* the S3 locations that hold a box file
    pc,         \* per writer: where it is in its operation
    call,       \* per writer: the operation it runs and its arguments
    catalog,    \* per writer: the local variable catalog
    refs,       \* per writer: the local variable refs of DeleteBox
    idx,        \* per writer: the position of DeleteBox's loop over refs
    ret,        \* per writer: the error the operation returned
    log,        \* per writer: the Backend calls of its current operation
    nops,       \* operations started so far
    writes,     \* successful SetCatalogBytes so far
    faults,     \* Backend calls that have failed so far
    cat,        \* a Catalog value in memory, for the calls made on a Catalog directly
    app         \* the last call made on cat or on versions: function, arguments, result

vars == <<object, boxes, pc, call, catalog, refs, idx, ret, log, nops, writes, faults,
          cat, app>>

\* the variables of the BackendManager runs
bmvars == <<object, boxes, pc, call, catalog, refs, idx, ret, log, nops, writes, faults>>

\* no call made yet
NoApp == [fn |-> "none"]

\* a catalog as earlier successful AddBox calls leave it
SeedCatalog ==
    CatalogAddBox(
        CatalogAddBox(ZeroCatalog, CatalogUri, "testbox", BoxDescription, "1.0",
                      "vmware", ChecksumType, "d3597d").catalog,
        CatalogUri, "testbox", BoxDescription, "2.0-BETA", "vbox", ChecksumType,
        "d3597d").catalog

SeedBoxes ==
    {S3BoxFileLoc(CatalogLocation, "testbox", "1.0", "vmware"),
     S3BoxFileLoc(CatalogLocation, "testbox", "2.0-BETA", "vbox")}

\* no operation has been called
WritersIdle ==
    /\ pc = [p \in Writers |-> "idle"]
    /\ call = [p \in Writers |->
                 [op |-> "none", name |-> "", version |-> "", provider |-> "",
                  checksum |-> "", params |-> NoParams]]
    /\ catalog = [p \in Writers |-> ZeroCatalog]
    /\ refs = [p \in Writers |-> <<>>]
    /\ idx = [p \in Writers |-> 1]
    /\ ret = [p \in Writers |-> "nil"]
    /\ log = [p \in Writers |-> <<>>]
    /\ nops = 0
    /\ writes = 0
    /\ faults = 0

\* the store holds no catalog yet, a damaged one, or one with two boxes
Init ==
    /\ \/ object = NoObject /\ boxes = {}
       \/ object = GarbageBytes /\ boxes = {}
       \/ object = JsonMarshalIndent(SeedCatalog) /\ boxes = SeedBoxes
    /\ WritersIdle
    /\ cat = ZeroCatalog
    /\ app = NoApp

Entry(op, arg, err, at) == [op |-> op, arg |-> arg, err |-> err, at |-> at]

\* the environment lets a Backend call end with this outcome
Allowed(outcome) == outcome = "ok" \/ faults < MaxFaults

Fault(outcome) == faults' = IF outcome = "ok" THEN faults ELSE faults + 1

CanStart(p) == pc[p] \in {"idle", "done", "panic"} /\ nops < MaxOps

\* BackendManager.AddBox from its call to the point where it returns an error
\* or is about to call SaveCatalog
AddBoxGetCatalogOf(p, versions, providers) ==
    /\ CanStart(p)
    /\ \E name \in BoxNames, version \in versions, provider \in providers,
          checksum \in Checksums, dl \in DownloadOutcomes :
          LET got == S3GetCatalogBytes(object, dl)
              r   == AddBoxPrepare(got, CatalogUri, name, BoxDescription, version,
                                   provider, ChecksumType, checksum)
          IN  /\ Allowed(dl)
              /\ Fault(dl)
              /\ call' = [call EXCEPT ![p] =
                            [op |-> "AddBox", name |-> name, version |-> version,
                             provider |-> provider, checksum |-> checksum,
                             params |-> NoParams]]
              /\ log' = [log EXCEPT ![p] =
                            <<Entry("GetCatalogBytes", got.bytes, got.err, writes)>>]
              /\ catalog' = [catalog EXCEPT ![p] = r.catalog]
              /\ ret' = [ret EXCEPT ![p] = r.err]
              /\ pc' = [pc EXCEPT ![p] = IF r.err = "nil" THEN "AddBox_SaveCatalog"
                                         ELSE "done"]
    /\ refs' = [refs EXCEPT ![p] = <<>>]
    /\ idx' = [idx EXCEPT ![p] = 1]
    /\ nops' = nops + 1
    /\ UNCHANGED <<object, boxes, writes, cat, app>>

AddBoxGetCatalog(p) == AddBoxGetCatalogOf(p, AddVersions, ProviderNames)

\* SaveCatalog whose caller does not return on its error
SaveCatalogNoReturn(p, next, outcome) ==
    LET jsonData == JsonMarshalIndent(catalog[p])
    IN  /\ Allowed(outcome)
        /\ Fault(outcome)
        /\ log' = [log EXCEPT ![p] =
               Append(@, Entry("SetCatalogBytes", jsonData,
                               IF outcome = "ok" THEN "nil" ELSE outcome,
                               IF outcome = "ok" THEN writes + 1 ELSE writes))]
        /\ pc' = [pc EXCEPT ![p] = next]
        /\ object' = IF outcome = "ok" THEN jsonData ELSE object
        /\ writes' = IF outcome = "ok" THEN writes + 1 ELSE writes
        /\ ret' = [ret EXCEPT ![p] = IF outcome = "ok" THEN @ ELSE outcome]

\* BackendManager.SaveCatalog: Backend.SetCatalogBytes of the encoded catalog
SaveCatalog(p, next, outcome) ==
    LET jsonData == JsonMarshalIndent(catalog[p])
    IN  /\ Allowed(outcome)
        /\ Fault(outcome)
        /\ IF outcome = "ok"
           THEN /\ object' = jsonData
                /\ writes' = writes + 1
                /\ log' = [log EXCEPT ![p] =
                       Append(@, Entry("SetCatalogBytes", jsonData, "nil", writes + 1))]
                /\ pc' = [pc EXCEPT ![p] = next]
                /\ UNCHANGED ret
           ELSE /\ log' = [log EXCEPT ![p] =
                       Append(@, Entry("SetCatalogBytes", jsonData, outcome, writes))]
                /\ pc' = [pc EXCEPT ![p] = "done"]
                /\ ret' = [ret EXCEPT ![p] = outcome]
                /\ UNCHANGED <<object, writes>>

AddBoxSaveCatalog(p) ==
    /\ pc[p] = "AddBox_SaveCatalog"
    /\ \E outcome \in UploadOutcomes : SaveCatalog(p, "AddBox_CopyBoxFile", outcome)
    /\ UNCHANGED <<boxes, call, catalog, refs, idx, nops, cat, app>>

\* CaryatidS3Backend.CopyBoxFile, and the return of AddBox
AddBoxCopyBoxFile(p) ==
    /\ pc[p] = "AddBox_CopyBoxFile"
    /\ \E outcome \in CopyOutcomes :
          LET boxFileLoc == S3BoxFileLoc(CatalogLocation, call[p].name,
                                         call[p].version, call[p].provider)
              err == IF outcome = "ok" THEN "nil" ELSE outcome
          IN  /\ Allowed(outcome)
              /\ Fault(outcome)
              /\ boxes' = IF outcome = "ok" THEN boxes \cup {boxFileLoc} ELSE boxes
              /\ log' = [log EXCEPT ![p] =
                            Append(@, Entry("CopyBoxFile", boxFileLoc, err, writes))]
              /\ ret' = [ret EXCEPT ![p] = err]
    /\ pc' = [pc EXCEPT ![p] = "done"]
    /\ UNCHANGED <<object, call, catalog, refs, idx, nops, writes, cat, app>>

\* BackendManager.DeleteBox from its call to the point where it returns an
\* error, panics, or is about to call SaveCatalog
DeleteBoxGetCatalogOf(p, queries) ==
    /\ CanStart(p)
    /\ \E params \in queries, dl \in DownloadOutcomes :
          LET got == S3GetCatalogBytes(object, dl)
              r   == DeleteBoxPrepare(got, params)
          IN  /\ Allowed(dl)
              /\ Fault(dl)
              /\ call' = [call EXCEPT ![p] =
                            [op |-> "DeleteBox", name |-> "", version |-> "",
                             provider |-> "", checksum |-> "",
                             params |-> params]]
              /\ log' = [log EXCEPT ![p] =
                            <<Entry("GetCatalogBytes", got.bytes, got.err, writes)>>]
              /\ catalog' = [catalog EXCEPT ![p] = r.catalog]
              /\ refs' = [refs EXCEPT ![p] = r.refs]
              /\ ret' = [ret EXCEPT ![p] = r.err]
              /\ pc' = [pc EXCEPT ![p] =
                           IF r.panic THEN "panic"
                           ELSE IF r.err = "nil" THEN "DeleteBox_SaveCatalog"
                           ELSE "done"]
    /\ idx' = [idx EXCEPT ![p] = 1]
    /\ nops' = nops + 1
    /\ UNCHANGED <<object, boxes, writes, cat, app>>

DeleteBoxGetCatalog(p) == DeleteBoxGetCatalogOf(p, DeleteQueries)

DeleteBoxSaveCatalog(p) ==
    /\ pc[p] = "DeleteBox_SaveCatalog"
    /\ \E outcome \in UploadOutcomes :
          SaveCatalog(p, IF Len(refs[p]) = 0 THEN "done" ELSE "DeleteBox_DeleteFile",
                      outcome)
    /\ UNCHANGED <<boxes, call, catalog, refs, idx, nops, cat, app>>

\* one turn of DeleteBox's loop over refs: CaryatidS3Backend.DeleteFile(ref.Uri)
DeleteBoxDeleteFile(p) ==
    /\ pc[p] = "DeleteBox_DeleteFile"
    /\ \E outcome \in DeleteOutcomes :
          LET uri == refs[p][idx[p]].Uri
              err == S3DeleteFile(boxes, uri, outcome).err
          IN  /\ Allowed(outcome)
              /\ Fault(outcome)
              /\ boxes' = S3DeleteFile(boxes, uri, outcome).files
              /\ log' = [log EXCEPT ![p] = Append(@, Entry("DeleteFile", uri, err, writes))]
              /\ ret' = [ret EXCEPT ![p] = err]
              /\ pc' = [pc EXCEPT ![p] =
                           IF err # "nil" \/ idx[p] = Len(refs[p]) THEN "done"
                           ELSE "DeleteBox_DeleteFile"]
              /\ idx' = [idx EXCEPT ![p] = IF err = "nil" THEN @ + 1 ELSE @]
    /\ UNCHANGED <<object, call, catalog, refs, nops, writes, cat, app>>

\* One invocation after another: the core is single-threaded, and a command
\* runs one operation to its end
Next ==
    \E p \in {"w1"} :
        \/ AddBoxGetCatalog(p)
        \/ AddBoxSaveCatalog(p)
        \/ AddBoxCopyBoxFile(p)
        \/ DeleteBoxGetCatalog(p)
        \/ DeleteBoxSaveCatalog(p)
        \/ DeleteBoxDeleteFile(p)

Spec == Init /\ [][Next]_vars

\* Two invocations at once, each running one AddBox against the same catalog
\* URI: nothing orders the Backend calls of one against those of the other
RaceAddBoxGetCatalog(p) == pc[p] = "idle" /\ AddBoxGetCatalog(p)

NextRace ==
    \E p \in Writers :
        \/ RaceAddBoxGetCatalog(p)
        \/ AddBoxSaveCatalog(p)
        \/ AddBoxCopyBoxFile(p)

SpecRace == Init /\ [][NextRace]_vars

(***************************************************************************)
(* Properties of BackendManager.AddBox and BackendManager.DeleteBox        *)
(***************************************************************************)

\* the (Version, Provider name) pairs a catalog lists
Pairs(c) ==
    UNION {{<<c.Versions[v].Version, c.Versions[v].Providers[k].Name>> :
               k \in 1..Len(c.Versions[v].Providers)} : v \in 1..Len(c.Versions)}

\* what GetCatalog returned in the current operation of writer p
ReadCatalog(p) == GetCatalog([bytes |-> log[p][1].arg, err |-> log[p][1].err])

\* a logged Backend call, or the decoding of what it returned, failed
StepFailed(e) ==
    \/ e.err # "nil"
    \/ e.op = "GetCatalogBytes" /\ JsonUnmarshal(e.arg).err # "nil"

\* the positions of the calls of op in the log of writer p
CallsOf(p, op) == {k \in 1..Len(log[p]) : log[p][k].op = op}

\* C1: in AddBox, CopyBoxFile is called only right after a SetCatalogBytes that
\* succeeded and only when no earlier step failed; when CopyBoxFile fails,
\* AddBox returns its error and the catalog that was persisted lists the new
\* (version, provider).
C1_CopyOnlyAfterCatalogPersisted ==
    \A p \in Writers :
        call[p].op = "AddBox" =>
            \A k \in CallsOf(p, "CopyBoxFile") :
                /\ k > 1
                /\ log[p][k - 1].op = "SetCatalogBytes"
                /\ log[p][k - 1].err = "nil"
                /\ \A j \in 1..(k - 1) : ~StepFailed(log[p][j])
                /\ log[p][k].err # "nil" =>
                      /\ ret[p] = log[p][k].err
                      /\ <<call[p].version, call[p].provider>>
                            \in Pairs(log[p][k - 1].arg.cat)

\* C2: when GetCatalog fails inside AddBox, AddBox is over with that error after
\* the one call of GetCatalogBytes: no SetCatalogBytes, no CopyBoxFile.
C2_GetCatalogFailureAborts ==
    \A p \in Writers :
        (call[p].op = "AddBox" /\ ReadCatalog(p).err # "nil") =>
            /\ pc[p] = "done"
            /\ ret[p] = ReadCatalog(p).err
            /\ Len(log[p]) = 1

\* C3: AddBox with a version that does not parse returns MalformedVersion
\* without having called any Backend method.
C3_MalformedVersionBeforeStorage ==
    \A p \in Writers :
        (call[p].op = "AddBox" /\ NewComparableVersion(call[p].version).err) =>
            /\ pc[p] = "done"
            /\ ret[p] = "MalformedVersion"
            /\ log[p] = <<>>

\* C4: in DeleteBox, the first call after GetCatalogBytes is a SetCatalogBytes of
\* Delete(catalog, params); DeleteFile is called only after that call succeeded,
\* with the Urls of the BoxReferences the query matched, in their order, each
\* once; a DeleteBox that returned no error has called it for every one of them;
\* when the query or the save fails, DeleteFile is not called.
C4_FilesDeletedAfterCatalogSaved ==
    \A p \in Writers :
        call[p].op = "DeleteBox" =>
            LET read    == ReadCatalog(p)
                matched == QueryCatalog(read.catalog, call[p].params)
                want    == BoxReferences(matched.result)
                deleted == CallsOf(p, "DeleteFile")
            IN  /\ log[p][1].op = "GetCatalogBytes"
                /\ CallsOf(p, "SetCatalogBytes") \subseteq {2}
                /\ Len(log[p]) >= 2 =>
                      /\ read.err = "nil" /\ ~matched.err /\ ~matched.panic
                      /\ log[p][2].op = "SetCatalogBytes"
                      /\ log[p][2].arg =
                            JsonMarshalIndent(DeleteQuery(read.catalog, call[p].params).result)
                /\ deleted # {} => log[p][2].err = "nil"
                /\ deleted = 3..Len(log[p])
                /\ \A k \in deleted :
                      /\ k - 2 <= Len(want)
                      /\ log[p][k].arg = want[k - 2].Uri
                      /\ k < Len(log[p]) => log[p][k].err = "nil"
                /\ (pc[p] = "done" /\ ret[p] = "nil") => Len(log[p]) = 2 + Len(want)

\* a DeleteBox that matched two boxes has returned without error
C4_Witness ==
    \E p \in Writers :
        /\ call[p].op = "DeleteBox"
        /\ pc[p] = "done"
        /\ ret[p] = "nil"
        /\ Cardinality(CallsOf(p, "DeleteFile")) = 2

\* the (version, provider) writer p adds
AddedPair(p) == <<call[p].version, call[p].provider>>

\* writer p has returned from an AddBox without error
AddBoxSucceeded(p) ==
    /\ call[p].op = "AddBox"
    /\ pc[p] = "done"
    /\ ret[p] = "nil"

\* p and q ran AddBox for different boxes, both read the catalog before either
\* wrote it, p wrote first, and both returned without error
Raced(p, q) ==
    /\ p # q
    /\ AddBoxSucceeded(p)
    /\ AddBoxSucceeded(q)
    /\ AddedPair(p) # AddedPair(q)
    /\ log[p][1].at < log[q][2].at
    /\ log[q][1].at < log[p][2].at
    /\ log[p][2].at < log[q][2].at

\* C5: after two AddBox calls that raced, the stored catalog is the second
\* writer's: it lists what the second writer read plus the second writer's box,
\* and the first writer's box only if the second writer had read it already.
C5_SecondWriterClobbersFirst ==
    \A p, q \in Writers :
        Raced(p, q) =>
            LET final == JsonUnmarshal(object).catalog
                seen  == Pairs(ReadCatalog(q).catalog)
            IN  /\ Pairs(final) = seen \cup {AddedPair(q)}
                /\ AddedPair(p) \notin seen => AddedPair(p) \notin Pairs(final)

\* two AddBox calls raced and the first writer's box is lost
C5_Witness ==
    \E p, q \in Writers :
        /\ Raced(p, q)
        /\ AddedPair(p) \notin Pairs(ReadCatalog(q).catalog)
        /\ AddedPair(p) \notin Pairs(JsonUnmarshal(object).catalog)
        /\ AddedPair(p) \in Pairs(log[p][2].arg.cat)

(***************************************************************************)
(* Calls made on a Catalog directly, as the tests and the query command    *)
(* make them: the catalog is built by Catalog.AddBox, and QueryCatalog,    *)
(* QueryCatalogVersions and DeleteQuery are applied to it.                 *)
(***************************************************************************)

\* testCatalog of vagrant_catalog_test.go
TestProvider(k) ==
    Provider(<<"StrongSapling", "FeebleFungus">>[k], "http://example.com/this/is/my/box",
             "CRC32", "0xB00B1E5")

TestCatalog ==
    [Name |-> "vagrant_catalog_test_box",
     Description |-> "Vagrant Catalog Test Box is a test box",
     Versions |-> <<
        Version("0.3.5", <<TestProvider(1)>>),
        Version("0.3.4", <<TestProvider(2)>>),
        Version("0.3.5-BETA", <<TestProvider(1), TestProvider(2)>>),
        Version("1.0.0", <<TestProvider(1)>>),
        Version("1.0.1", <<TestProvider(2)>>),
        Version("1.4.5", <<TestProvider(1)>>),
        Version("1.2.3", <<TestProvider(1), TestProvider(2)>>),
        Version("1.2.4", <<TestProvider(1)>>),
        Version("2.11.1", <<TestProvider(2)>>) >>]

\* the versions Catalog.AddBox is called with: it does not parse them
CatalogVersions == {"0.3.5", "0.3.5-BETA", "1.0", "v1"}

VersionQueryTexts == {"", "0.3.5", "=0.3.5", "<0.3.5", "<=0.3.5", ">0.3.5", ">=0.3.5", ">=x"}

ProviderQueryTexts == {"", "vbox", "Fungus$", "("}

\* Catalog.AddBox adds no Version to a catalog that holds MaxVersions of them
MaxVersions == 2

CatalogInit ==
    /\ object = NoObject
    /\ boxes = {}
    /\ WritersIdle
    /\ cat \in {ZeroCatalog, TestCatalog}
    /\ app = NoApp

\* a call is made on a catalog on which no call has been recorded yet
Fresh == app = NoApp

ApplyCatalogAddBox ==
    /\ Fresh
    /\ \E version \in CatalogVersions, provider \in ProviderNames :
          LET r == CatalogAddBox(cat, CatalogUri, "testbox", BoxDescription, version,
                                 provider, ChecksumType, "d3597d")
          IN  /\ Len(r.catalog.Versions) <= MaxVersions
              /\ cat' = r.catalog
    /\ app' = NoApp
    /\ UNCHANGED bmvars

\* Catalog.DeleteQuery takes boxes out of the catalog that is being built
ApplyCatalogDeleteQuery ==
    /\ Fresh
    /\ \E vq \in VersionQueryTexts, pq \in ProviderQueryTexts :
          LET r == DeleteQuery(cat, CatalogQueryParams(vq, pq))
          IN  /\ ~r.err
              /\ ~r.panic
              /\ cat' = r.result
    /\ app' = NoApp
    /\ UNCHANGED bmvars

\* the catalog URIs AddBox is called with: the one the catalog is built with,
\* one in another directory, and one without a slash
AddCatalogUris == {CatalogUri, "s3://bucket/testbox.json", "testbox.json"}

\* the names AddBox is called with
AddNames == {"testbox", "otherbox", ""}

\* the checksums AddBox is called with, as <<checksumType, checksum>>
AddChecksums == {<<ChecksumType, "d3597d">>, <<"CRC32", "0xB00B1E5">>}

\* one call of Catalog.AddBox on the catalog, its arguments and result recorded
ApplyAddBox ==
    /\ Fresh
    /\ \E catalogUri \in AddCatalogUris, name \in AddNames,
          version \in CatalogVersions \cup {"1.0.0"}, provider \in ProviderNames,
          sum \in AddChecksums :
          app' = [fn |-> "AddBox", catalogUri |-> catalogUri, name |-> name,
                  description |-> "another description", version |-> version,
                  provider |-> provider, checksumType |-> sum[1], checksum |-> sum[2],
                  res |-> CatalogAddBox(cat, catalogUri, name, "another description",
                                        version, provider, sum[1], sum[2])]
    /\ UNCHANGED <<bmvars, cat>>

\* the catalog root of TestCatalogAddBox, and the catalog URI of the box
\* TESTBOX under it
TestCatalogRoot == "file:///catalog/root"

TestCatalogUri == TestCatalogRoot \o "/TESTBOX.json"

\* the call of TestCatalogAddBox: its box, added through the catalog URI under
\* the catalog root, or through the catalog root taken for the catalog URI
ApplyTestAddBox ==
    /\ Fresh
    /\ \E catalogUri \in {TestCatalogUri, TestCatalogRoot} :
          app' = [fn |-> "AddBox", catalogUri |-> catalogUri, name |-> "TESTBOX",
                  description |-> "This is a description of TESTBOX",
                  version |-> "2.4.9", provider |-> "PROVIDER",
                  checksumType |-> "CHECKSUMTYPE", checksum |-> "0xDECAFBAD",
                  res |-> CatalogAddBox(cat, catalogUri, "TESTBOX",
                                        "This is a description of TESTBOX", "2.4.9",
                                        "PROVIDER", "CHECKSUMTYPE", "0xDECAFBAD")]
    /\ UNCHANGED <<bmvars, cat>>

ApplyQueryCatalogVersions ==
    /\ Fresh
    /\ \E versionquery \in VersionQueryTexts :
          app' = [fn |-> "QueryCatalogVersions", versionquery |-> versionquery,
                  res |-> QueryCatalogVersions(cat, versionquery)]
    /\ UNCHANGED <<bmvars, cat>>

\* the patterns QueryCatalogProviders is called with: those of the queries, and
\* more of TestQueryCatalogProviders and of their kind
ProviderPatterns == ProviderQueryTexts \cup {"F", "^Strong", "box", "^v", "v.o"}

ApplyQueryCatalogProviders ==
    /\ Fresh
    /\ \E providerquery \in ProviderPatterns :
          app' = [fn |-> "QueryCatalogProviders", providerquery |-> providerquery,
                  res |-> QueryCatalogProviders(cat, providerquery)]
    /\ UNCHANGED <<bmvars, cat>>

ApplyQueryCatalog ==
    /\ Fresh
    /\ \E vq \in VersionQueryTexts, pq \in ProviderQueryTexts :
          app' = [fn |-> "QueryCatalog", params |-> CatalogQueryParams(vq, pq),
                  res |-> QueryCatalog(cat, CatalogQueryParams(vq, pq))]
    /\ UNCHANGED <<bmvars, cat>>

ApplyDeleteQuery ==
    /\ Fresh
    /\ \E vq \in VersionQueryTexts, pq \in ProviderQueryTexts :
          app' = [fn |-> "DeleteQuery", params |-> CatalogQueryParams(vq, pq),
                  res |-> DeleteQuery(cat, CatalogQueryParams(vq, pq))]
    /\ UNCHANGED <<bmvars, cat>>

NextCatalog ==
    \/ ApplyCatalogAddBox
    \/ ApplyQueryCatalogProviders
    \/ ApplyCatalogDeleteQuery
    \/ ApplyAddBox
    \/ ApplyTestAddBox
    \/ ApplyQueryCatalogVersions
    \/ ApplyQueryCatalog
    \/ ApplyDeleteQuery

SpecCatalog == CatalogInit /\ [][NextCatalog]_vars

(***************************************************************************)
(* Calls of ComparableVersion.Compare on two ComparableVersion values      *)
(***************************************************************************)

\* the components of a ComparableVersion are 0..MaxComponent
MaxComponent == 1

\* a ComparableVersion has at most MaxLen components
MaxLen == 2

Prereleases == {"", "BETA", "beta"}

RECURSIVE IntArrays(_)
IntArrays(n) ==
    IF n = 0 THEN {<<>>}
    ELSE LET shorter == IntArrays(n - 1)
         IN  shorter \cup {Append(a, k) : a \in {b \in shorter : Len(b) = n - 1},
                                          k \in 0..MaxComponent}

\* arrays of TestCompareIntArray that are longer than MaxLen, or hold more
\* than MaxComponent
TestIntArrays == {<<1, 0, 0>>, <<1, 0, 0, 0>>, <<2>>, <<2, 1, 1, 1>>}

VersionArrays == IntArrays(MaxLen) \cup TestIntArrays

ComparableVersions ==
    {[Version |-> a, Prerelease |-> pre] : a \in VersionArrays, pre \in Prereleases}

ApplyCompareIntArray ==
    /\ Fresh
    /\ \E va1 \in VersionArrays, va2 \in VersionArrays :
          app' = [fn |-> "CompareIntArray", va1 |-> va1, va2 |-> va2,
                  res |-> CompareIntArray(va1, va2)]
    /\ UNCHANGED <<bmvars, cat>>

ApplyCompare ==
    /\ Fresh
    /\ \E cv1 \in ComparableVersions, cv2 \in ComparableVersions :
          app' = [fn |-> "Compare", cv1 |-> cv1, cv2 |-> cv2, res |-> Compare(cv1, cv2)]
    /\ UNCHANGED <<bmvars, cat>>

\* the version strings of TestNewComparableVersion, and more with the dash,
\* the dots and the signs in other places
VersionTexts ==
    {"1.2.3", "1.2.3-LONGASSPRERELEASE", "10.20.30", "0-X", "-JUSTPRERELEASE", "-X",
     "-4", "JUSTTEXT", "-1.2.3-PREREL", "1.-2.3-PRE",
     "1-BETA.2", "1.0.0-beta.2", "1.0-a-b", "1.x", "1..2", "1.", ".1", "", "1-",
     "+1", "1.+2", "007", "1.0"}

ApplyNewComparableVersion ==
    /\ Fresh
    /\ \E semver \in VersionTexts :
          app' = [fn |-> "NewComparableVersion", semver |-> semver,
                  res |-> NewComparableVersion(semver)]
    /\ UNCHANGED <<bmvars, cat>>

NextVersion ==
    \/ ApplyCompare
    \/ ApplyNewComparableVersion
    \/ ApplyCompareIntArray

VersionInit ==
    /\ object = NoObject
    /\ boxes = {}
    /\ WritersIdle
    /\ cat = ZeroCatalog
    /\ app = NoApp

SpecVersion == VersionInit /\ [][NextVersion]_vars

(***************************************************************************)
(* Properties of the query and delete functions                            *)
(***************************************************************************)

\* the call recorded in app returned a catalog
Returned == ~app.res.err /\ ~app.res.panic

AllVersionsParse(c) ==
    \A i \in 1..Len(c.Versions) : ~NewComparableVersion(c.Versions[i].Version).err

\* C8: on a catalog whose Version strings parse, QueryCatalogVersions with a
\* query that is not empty and parses returns, without error, the Versions that
\* compare against the query version to a member of the qualifier's set, in the
\* catalog's order (none, when none matches); with the empty query it returns
\* the catalog.
C8_QueryVersionsFilters ==
    app.fn = "QueryCatalogVersions" =>
        LET q == parseVersionQueryString(app.versionquery)
            Accepted(v) ==
                \E i \in 1..Len(q.qualifier) :
                    q.qualifier[i] = Compare(NewComparableVersion(v.Version), q.version)
        IN  /\ app.versionquery = "" => (app.res.result = cat /\ ~app.res.err)
            /\ (app.versionquery # "" /\ ~q.err /\ AllVersionsParse(cat)) =>
                  /\ ~app.res.err
                  /\ app.res.result =
                        [Name |-> cat.Name, Description |-> cat.Description,
                         Versions |-> SelectSeq(cat.Versions, Accepted)]

\* the versions of a catalog, in order
VersionStrings(c) == [i \in 1..Len(c.Versions) |-> c.Versions[i].Version]

\* the test's query <=0.3.5 on testCatalog has returned three of its nine Versions
C8_Witness ==
    /\ app.fn = "QueryCatalogVersions"
    /\ app.versionquery = "<=0.3.5"
    /\ ~app.res.err
    /\ Len(cat.Versions) = 9
    /\ VersionStrings(app.res.result) = <<"0.3.5", "0.3.4", "0.3.5-BETA">>

\* the qualifier a query text starts with, the longest one that fits
PrefixOf(text) ==
    IF HasPrefix(text, ">=") THEN ">="
    ELSE IF HasPrefix(text, "<=") THEN "<="
    ELSE IF HasPrefix(text, ">") THEN ">"
    ELSE IF HasPrefix(text, "<") THEN "<"
    ELSE IF HasPrefix(text, "=") THEN "="
    ELSE ""

\* the table of accepted comparators
AcceptedSet(prefix) ==
    CASE prefix = "="  -> {VersionEquals}
      [] prefix = ""   -> {VersionEquals, VersionEqualsPrereleaseMismatch}
      [] prefix = "<"  -> {VersionLessThan}
      [] prefix = ">"  -> {VersionGreaterThan}
      [] prefix = "<=" -> {VersionLessThan, VersionEquals, VersionEqualsPrereleaseMismatch}
      [] prefix = ">=" -> {VersionGreaterThan, VersionEquals, VersionEqualsPrereleaseMismatch}

\* v has the numbers of the query version and another prerelease tag
PrereleaseTwin(v, cv) ==
    LET cVers == NewComparableVersion(v.Version)
    IN  /\ ~cVers.err
        /\ CompareIntArray(cVers.Version, cv.Version) = VersionEquals
        /\ cVers.Prerelease # cv.Prerelease

C10_PrereleaseMismatch ==
    (app.fn = "Compare"
        /\ CompareIntArray(app.cv1.Version, app.cv2.Version) = VersionEquals) =>
            app.res = IF app.cv1.Prerelease = app.cv2.Prerelease
                      THEN VersionEquals
                      ELSE VersionEqualsPrereleaseMismatch

\* 1.0-BETA has been compared with 1-beta
C10_Witness ==
    /\ app.fn = "Compare"
    /\ app.cv1 = [Version |-> <<1, 0>>, Prerelease |-> "BETA"]
    /\ app.cv2 = [Version |-> <<1>>, Prerelease |-> "beta"]
    /\ app.res = VersionEqualsPrereleaseMismatch

\* va with zeros appended up to n components
Padded(va, n) == [i \in 1..n |-> IF i <= Len(va) THEN va[i] ELSE 0]

\* the order of two arrays, component by component from the left, the shorter
\* one padded with zeros
PaddedOrder(va1, va2) ==
    LET n    == IF Len(va1) >= Len(va2) THEN Len(va1) ELSE Len(va2)
        p1   == Padded(va1, n)
        p2   == Padded(va2, n)
        diff == {i \in 1..n : p1[i] # p2[i]}
    IN  IF diff = {} THEN VersionEquals
        ELSE LET first == CHOOSE i \in diff : \A j \in diff : i <= j
             IN  IF p1[first] < p2[first] THEN VersionLessThan ELSE VersionGreaterThan

\* C11: on two arrays that are not empty CompareIntArray returns their order
\* after padding the shorter one with zeros: Equals iff the padded arrays are
\* the same, else LessThan or GreaterThan by the first component that differs.
C11_CompareIntArrayPadsWithZeros ==
    (app.fn = "CompareIntArray" /\ Len(app.va1) > 0 /\ Len(app.va2) > 0) =>
        app.res = PaddedOrder(app.va1, app.va2)

\* TestCompareIntArray's [2] against [2, 1, 1, 1], three components longer
C11_Witness ==
    /\ app.fn = "CompareIntArray"
    /\ app.va1 = <<2>>
    /\ app.va2 = <<2, 1, 1, 1>>
    /\ app.res = VersionLessThan

\* the results that say the numbers are the same
NumericallyEqual == {VersionEquals, VersionEqualsPrereleaseMismatch}

\* C12: Compare(a, b) is GreaterThan iff Compare(b, a) is LessThan (and the
\* other way round); a LessThan or GreaterThan result stays the same whatever
\* the two Prerelease tags are; and the results order the versions: from a
\* below b and b below or numerically equal to c follows a below c, and
\* likewise upwards.
C12_CompareIsAnOrder ==
    app.fn = "Compare" =>
        LET a == app.cv1
            b == app.cv2
        IN  /\ app.res = VersionGreaterThan <=> Compare(b, a) = VersionLessThan
            /\ app.res = VersionLessThan <=> Compare(b, a) = VersionGreaterThan
            /\ app.res \in {VersionLessThan, VersionGreaterThan} =>
                  \A pre1 \in Prereleases, pre2 \in Prereleases :
                      Compare([a EXCEPT !.Prerelease = pre1],
                              [b EXCEPT !.Prerelease = pre2]) = app.res
            /\ \A c \in ComparableVersions :
                  /\ (app.res = VersionLessThan
                        /\ Compare(b, c) \in NumericallyEqual \cup {VersionLessThan})
                     => Compare(a, c) = VersionLessThan
                  /\ (app.res = VersionGreaterThan
                        /\ Compare(b, c) \in NumericallyEqual \cup {VersionGreaterThan})
                     => Compare(a, c) = VersionGreaterThan

\* 1.1-BETA has been compared with 1-beta, a shorter version with another tag
C12_Witness ==
    /\ app.fn = "Compare"
    /\ app.cv1 = [Version |-> <<1, 1>>, Prerelease |-> "BETA"]
    /\ app.cv2 = [Version |-> <<1>>, Prerelease |-> "beta"]
    /\ app.res = VersionGreaterThan

(***************************************************************************)
(* Properties of Catalog.AddBox                                            *)
(***************************************************************************)

\* a call of Catalog.AddBox has returned without error
AddBoxReturned == app.fn = "AddBox" /\ app.res.err = "nil"

\* provider is the one the recorded AddBox call was to add
IsAddedProvider(provider) ==
    /\ provider.Name = app.provider
    /\ provider.ChecksumType = app.checksumType
    /\ provider.Checksum = app.checksum

\* C13: an AddBox that returns no error finds the Version by its string. With
\* no such Version it appends one, holding the one Provider, after the others;
\* with the Version and no such Provider it appends the Provider after that
\* Version's others; with both it changes that Provider's Url, ChecksumType and
\* Checksum where it stands. Every other Version and Provider stays as and
\* where it was.
C13_AddBoxAppendsOrOverwrites ==
    AddBoxReturned =>
        LET before == cat.Versions
            after  == app.res.catalog.Versions
            vhits  == {i \in 1..Len(before) : before[i].Version = app.version}
        IN  IF vhits = {}
            THEN /\ Len(after) = Len(before) + 1
                 /\ SubSeq(after, 1, Len(before)) = before
                 /\ after[Len(after)].Version = app.version
                 /\ Len(after[Len(after)].Providers) = 1
                 /\ IsAddedProvider(after[Len(after)].Providers[1])
            ELSE \E i \in vhits :
                 LET old   == before[i].Providers
                     new   == after[i].Providers
                     phits == {k \in 1..Len(old) : old[k].Name = app.provider}
                 IN  /\ Len(after) = Len(before)
                     /\ \A j \in 1..Len(before) : j # i => after[j] = before[j]
                     /\ after[i].Version = app.version
                     /\ IF phits = {}
                        THEN /\ Len(new) = Len(old) + 1
                             /\ SubSeq(new, 1, Len(old)) = old
                             /\ IsAddedProvider(new[Len(new)])
                        ELSE \E k \in phits :
                             /\ Len(new) = Len(old)
                             /\ \A m \in 1..Len(old) : m # k => new[m] = old[m]
                             /\ IsAddedProvider(new[k])

\* 1.0.0 has been added to a catalog that holds 1.0, and is a Version of its own
C13_Witness ==
    /\ AddBoxReturned
    /\ app.version = "1.0.0"
    /\ \E i \in 1..Len(cat.Versions) : cat.Versions[i].Version = "1.0"
    /\ Len(app.res.catalog.Versions) = Len(cat.Versions) + 1

\* C14: AddBox on a catalog whose Name is not empty and is not the name it is
\* called with returns NameMismatch and leaves the catalog as it was.
C14_NameMismatchWhenNamesDiffer ==
    (app.fn = "AddBox" /\ cat.Name # "" /\ cat.Name # app.name) =>
        /\ app.res.err = "NameMismatch"
        /\ app.res.catalog = cat

\* how many members of a sequence satisfy Test
CountOf(seq, Test(_)) == Cardinality({i \in 1..Len(seq) : Test(seq[i])})

\* C15: a second AddBox with the arguments of the first returns what the first
\* returned and a catalog that Catalog.Equals the catalog after the first; when
\* they return no error that catalog holds the Version once and, in it, the
\* Provider once.
C15_AddBoxIdempotent ==
    app.fn = "AddBox" =>
        LET first  == app.res
            second == CatalogAddBox(first.catalog, app.catalogUri, app.name,
                                    app.description, app.version, app.provider,
                                    app.checksumType, app.checksum)
            IsVersion(v)  == v.Version = app.version
            IsProvider(p) == p.Name = app.provider
        IN  /\ second.err = first.err
            /\ CatalogEquals(second.catalog, first.catalog)
            /\ CatalogEquals(first.catalog, second.catalog)
            /\ first.err = "nil" =>
                  /\ CountOf(second.catalog.Versions, IsVersion) = 1
                  /\ \A i \in 1..Len(second.catalog.Versions) :
                        IsVersion(second.catalog.Versions[i]) =>
                            CountOf(second.catalog.Versions[i].Providers, IsProvider) = 1

\* AddBox has added a Provider to a Version the catalog held, so that a second
\* call finds both
C15_Witness ==
    /\ AddBoxReturned
    /\ \E i \in 1..Len(cat.Versions) :
          /\ cat.Versions[i].Version = app.version
          /\ Len(app.res.catalog.Versions[i].Providers) = Len(cat.Versions[i].Providers) + 1

\* no two members of a sequence have the same Key
UniqueBy(seq, Key(_)) ==
    \A i \in 1..Len(seq), j \in 1..Len(seq) : Key(seq[i]) = Key(seq[j]) => i = j

VersionOf(v) == v.Version

NameOf(provider) == provider.Name

\* no Version string twice in c, no Provider name twice in a Version
NoDuplicates(c) ==
    /\ UniqueBy(c.Versions, VersionOf)
    /\ \A i \in 1..Len(c.Versions) : UniqueBy(c.Versions[i].Providers, NameOf)

\* C16: the catalog AddBox and DeleteQuery calls have made of an empty one (or
\* of the test's catalog) has no Version string twice and, in a Version, no
\* Provider name twice; nor has the catalog one more AddBox or DeleteQuery returns.
C16_VersionsAndProvidersUnique ==
    /\ NoDuplicates(cat)
    /\ app.fn = "AddBox" => NoDuplicates(app.res.catalog)
    /\ app.fn = "DeleteQuery" => NoDuplicates(app.res.result)

\* DeleteQuery has taken Versions out of the test's catalog, and an AddBox on
\* what is left has returned without error
C16_Witness ==
    /\ app.fn = "AddBox"
    /\ app.res.err = "nil"
    /\ cat.Name = TestCatalog.Name
    /\ cat.Versions # <<>>
    /\ Len(cat.Versions) < Len(TestCatalog.Versions)
    /\ app.res.catalog.Versions # cat.Versions

(***************************************************************************)
(* Properties of QueryCatalogProviders and NewComparableVersion            *)
(***************************************************************************)

Dashes(text) == {i \in 1..Len(text) : CharAt(text, i) = "-"}

\* the text is decimal digits, one at least, after an optional plus sign: what
\* strconv.ParseInt takes for an integer that is not negative
IsNumber(text) ==
    LET body == IF HasPrefix(text, "+") THEN SubSeq(text, 2, Len(text)) ELSE text
    IN  /\ Len(body) > 0
        /\ \A i \in 1..Len(body) : IsDigit(CharAt(body, i))

\* every component between the dots of the text is a number
IsDottedNumbers(text) ==
    LET parts == Split(text, ".")
    IN  \A k \in 1..Len(parts) : IsNumber(parts[k])

\* the text as C18 describes the accepted strings: numbers between dots, and at
\* most one dash, which stands in the last of the components between the dots,
\* after its number
DashInLastComponent(text) ==
    LET parts == Split(text, ".")
        last  == parts[Len(parts)]
        cut   == Dashes(last)
    IN  /\ Cardinality(Dashes(text)) <= 1
        /\ \A k \in 1..(Len(parts) - 1) : IsNumber(parts[k])
        /\ IF cut = {} THEN IsNumber(last)
           ELSE \A i \in cut : IsNumber(SubSeq(last, 1, i - 1))

\* C18 as stated: NewComparableVersion returns no error only for dot-separated
\* numbers with at most one dash, in the last dot-separated component; 1-BETA.2,
\* with its dash in an earlier component, is an error.
C18_DashOnlyInLastComponent ==
    app.fn = "NewComparableVersion" =>
        (~app.res.err => DashInLastComponent(app.semver))

\* C18, amended: NewComparableVersion returns no error exactly when the text
\* has at most one dash and what stands before the dash (the whole text without
\* one) is numbers between dots; what follows the dash, dots included, is the
\* Prerelease. More than one dash, a component before the dash that is not a
\* number, and a text that starts with its dash are errors.
C18_DashEndsTheNumbers ==
    app.fn = "NewComparableVersion" =>
        LET cut     == Dashes(app.semver)
            first   == IF cut = {} THEN Len(app.semver) + 1
                       ELSE CHOOSE i \in cut : \A j \in cut : i <= j
            numbers == SubSeq(app.semver, 1, first - 1)
            tag     == SubSeq(app.semver, first + 1, Len(app.semver))
            parts   == Split(numbers, ".")
        IN  /\ ~app.res.err <=> (Cardinality(cut) <= 1 /\ IsDottedNumbers(numbers))
            /\ ~app.res.err =>
                  /\ Len(app.res.Version) = Len(parts)
                  /\ \A k \in 1..Len(parts) : app.res.Version[k] = ParseInt(parts[k]).val
                  /\ app.res.Prerelease = tag

\* 1-BETA.2 has been parsed, to the version 1 with the Prerelease BETA.2
C18_Witness ==
    /\ app.fn = "NewComparableVersion"
    /\ app.semver = "1-BETA.2"
    /\ app.res = [Version |-> <<1>>, Prerelease |-> "BETA.2", err |-> FALSE]

\* a number that is not negative, in decimal digits
RECURSIVE Decimal(_)
Decimal(n) ==
    IF n < 10 THEN Digits[n + 1]
    ELSE Decimal(n \div 10) \o Digits[(n % 10) + 1]

\* the numbers of va in decimal digits, with dots between them
RECURSIVE Dotted(_)
Dotted(va) ==
    IF Len(va) = 0 THEN ""
    ELSE IF Len(va) = 1 THEN Decimal(va[1])
    ELSE Decimal(va[1]) \o "." \o Dotted(Tail(va))

\* the version string made of a ComparableVersion
Rebuilt(cv) ==
    IF cv.Prerelease = "" THEN Dotted(cv.Version)
    ELSE Dotted(cv.Version) \o "-" \o cv.Prerelease

\* C19: the string made of what NewComparableVersion returned without error,
\* its numbers joined by dots and a dash and the Prerelease after them when
\* there is one, parses without error to the same numbers and Prerelease, and
\* Compare finds the two Equals.
C19_ParseRoundTrips ==
    (app.fn = "NewComparableVersion" /\ ~app.res.err) =>
        LET again == NewComparableVersion(Rebuilt(app.res))
        IN  /\ ~again.err
            /\ again.Version = app.res.Version
            /\ again.Prerelease = app.res.Prerelease
            /\ Compare(again, app.res) = VersionEquals

\* 1.0.0-beta.2 has been parsed, and the string made of the result is the same
C19_Witness ==
    /\ app.fn = "NewComparableVersion"
    /\ app.semver = "1.0.0-beta.2"
    /\ ~app.res.err
    /\ Rebuilt(app.res) = "1.0.0-beta.2"

(***************************************************************************)
(* Properties of the box URI                                               *)
(***************************************************************************)

\* the text is <dir>/<name>.json
IsCatalogOf(text, dir, name) == text = dir \o "/" \o name \o ".json"

\* the directories a catalog URI of the calls can be in
CatalogDirs ==
    UNION {{SubSeq(uri, 1, i) : i \in 0..Len(uri)} : uri \in AddCatalogUris}

TestBoxAdded ==
    /\ app.fn = "AddBox"
    /\ app.catalogUri = TestCatalogUri
    /\ app.name = "TESTBOX"
    /\ app.version = "2.4.9"
    /\ app.provider = "PROVIDER"
    /\ app.checksumType = "CHECKSUMTYPE"
    /\ app.checksum = "0xDECAFBAD"

\* C21: AddBox of TESTBOX 2.4.9 PROVIDER with CHECKSUMTYPE 0xDECAFBAD into a
\* catalog without Versions (the empty Catalog, or one already named TESTBOX),
\* through the catalog URI of TESTBOX under file:///catalog/root, returns no
\* error and leaves exactly one Version, 2.4.9, with exactly one Provider,
\* PROVIDER, whose Url is file:///catalog/root/TESTBOX/TESTBOX_2.4.9_PROVIDER.box.
C21_TestBoxIntoEmptyCatalog ==
    (TestBoxAdded /\ Len(cat.Versions) = 0 /\ cat.Name \in {"", "TESTBOX"}) =>
        /\ app.res.err = "nil"
        /\ app.res.catalog.Name = "TESTBOX"
        /\ app.res.catalog.Versions =
              << Version("2.4.9",
                    << Provider("PROVIDER",
                                "file:///catalog/root/TESTBOX/TESTBOX_2.4.9_PROVIDER.box",
                                "CHECKSUMTYPE", "0xDECAFBAD") >>) >>

\* the box of the test has been added to the empty Catalog
C21_Witness ==
    /\ TestBoxAdded
    /\ cat = ZeroCatalog
    /\ Len(app.res.catalog.Versions) = 1

(***************************************************************************)
(* Calls made on a backend directly, as BackendManager makes them: the     *)
(* backend is set up for a catalog URI (SetManager) and one of its methods *)
(* is called. The store is the one the run starts with.                    *)
(***************************************************************************)

\* the catalog URIs an S3 backend is set up with
S3CatalogUris ==
    {CatalogUri, "s3://bucket/testbox.json", "s3://bucket/",
     "s3://my-bucket_1/a/b/c.json", "s3://bucket/a//b.json"}

\* the box names, versions and providers CopyBoxFile is called with
CopyNames == {"testbox", "my/box", ""}

CopyVersions == {"1.0", "2.0-BETA"}

\* CaryatidS3Backend.SetManager for catalogUri, then CopyBoxFile: the location
\* the box is uploaded to, and the error
ApplyS3CopyBoxFile ==
    /\ app = NoApp
    /\ \E catalogUri \in S3CatalogUris, boxName \in CopyNames,
          boxVersion \in CopyVersions, boxProvider \in ProviderNames,
          outcome \in CopyOutcomes :
          app' = [fn |-> "CopyBoxFile", backend |-> "s3", catalogUri |-> catalogUri,
                  name |-> boxName, version |-> boxVersion, provider |-> boxProvider,
                  res |-> [loc |-> S3BoxFileLoc(uri2s3location(catalogUri), boxName,
                                                boxVersion, boxProvider),
                           err |-> IF outcome = "ok" THEN "nil" ELSE outcome]]
    /\ UNCHANGED <<bmvars, cat>>

\* CaryatidS3Backend.GetCatalogBytes on the store, and what
\* BackendManager.GetCatalog makes of its answer
ApplyS3GetCatalogBytes ==
    /\ app = NoApp
    /\ \E dl \in DownloadOutcomes :
          app' = [fn |-> "GetCatalogBytes", backend |-> "s3", outcome |-> dl,
                  res |-> S3GetCatalogBytes(object, dl),
                  got |-> GetCatalog(S3GetCatalogBytes(object, dl))]
    /\ UNCHANGED <<bmvars, cat>>

\* CaryatidLocalFileBackend.GetCatalogBytes on a catalog file with the store's
\* content, and what BackendManager.GetCatalog makes of its answer
ApplyLocalGetCatalogBytes ==
    /\ app = NoApp
    /\ \E rd \in ReadOutcomes :
          app' = [fn |-> "GetCatalogBytes", backend |-> "file", outcome |-> rd,
                  res |-> LocalGetCatalogBytes(object, rd),
                  got |-> GetCatalog(LocalGetCatalogBytes(object, rd))]
    /\ UNCHANGED <<bmvars, cat>>

\* the URIs DeleteFile is called with: box files of both backends, schemes in
\* capitals, another scheme, no scheme, a path that is not clean, no path,
\* and URIs that do not parse
DeleteUris ==
    {"file:///catalog/root/testbox/testbox_1.0_vbox.box",
     "FILE:///catalog/root/testbox/testbox_1.0_vbox.box",
     "file:///catalog/root//testbox/../testbox/testbox_1.0_vbox.box",
     "file:///catalog/root/testbox/testbox_9.9_vbox.box",
     "file://",
     "file:///catalog/%zz",
     "s3://bucket/boxes/testbox/testbox_1.0_vmware.box",
     "S3://bucket/boxes/testbox/testbox_1.0_vmware.box",
     "s3:/bucket/boxes/testbox/testbox_1.0_vmware.box",
     "http://example.com/this/is/my/box",
     "/catalog/root/testbox/testbox_1.0_vbox.box",
     ":x"}

\* the files of a local file system: at each path that a URI of DeleteUris
\* has, whatever its scheme
LocalFiles ==
    {"/catalog/root/testbox/testbox_1.0_vbox.box",
     "/boxes/testbox/testbox_1.0_vmware.box",
     "/bucket/boxes/testbox/testbox_1.0_vmware.box",
     "/this/is/my/box"}

\* the box files of an object store: those of the seed catalog, and an object
\* in the bucket example.com
S3Files == SeedBoxes \cup {S3Location("example.com", "this/is/my/box")}

ApplyLocalDeleteFile ==
    /\ app = NoApp
    /\ \E files \in {LocalFiles, {}}, uri \in DeleteUris, outcome \in RemoveOutcomes :
          app' = [fn |-> "DeleteFile", backend |-> "file", uri |-> uri,
                  files |-> files, outcome |-> outcome,
                  res |-> LocalDeleteFile(files, uri, outcome)]
    /\ UNCHANGED <<bmvars, cat>>

ApplyS3DeleteFile ==
    /\ app = NoApp
    /\ \E files \in {S3Files, {}}, uri \in DeleteUris, outcome \in DeleteOutcomes :
          app' = [fn |-> "DeleteFile", backend |-> "s3", uri |-> uri,
                  files |-> files, outcome |-> outcome,
                  res |-> S3DeleteFile(files, uri, outcome)]
    /\ UNCHANGED <<bmvars, cat>>

NextBackend ==
    \/ ApplyS3CopyBoxFile
    \/ ApplyS3GetCatalogBytes
    \/ ApplyLocalGetCatalogBytes
    \/ ApplyLocalDeleteFile
    \/ ApplyS3DeleteFile

SpecBackend == Init /\ [][NextBackend]_vars

(***************************************************************************)
(* Properties of the backends                                              *)
(***************************************************************************)

\* the Url Catalog.AddBox records for the box in an empty Catalog
RecordedUrl(catalogUri, name, version, provider) ==
    CatalogAddBox(ZeroCatalog, catalogUri, name, BoxDescription, version, provider,
                  ChecksumType, "d3597d").catalog.Versions[1].Providers[1].Url

\* text with everything after its last '/' replaced by leaf; all of it when it
\* has no '/'
ReplaceLastSegment(text, leaf) ==
    LET cut == {i \in 1..Len(text) : CharAt(text, i) = "/"}
    IN  IF cut = {} THEN leaf
        ELSE SubSeq(text, 1, CHOOSE i \in cut : \A k \in cut : k <= i) \o leaf

\* C22: for a catalog URI s3://<bucket>/<key> and a (name, version, provider),
\* the bucket and key CopyBoxFile uploads the box to are those of the Url that
\* Catalog.AddBox records for the same catalog URI and triple, and the key is
\* the catalog key with everything after its last '/' replaced by
\* <name>/<name>_<version>_<provider>.box.
C22_CopyLocationIsRecordedUrl ==
    (app.fn = "CopyBoxFile" /\ app.backend = "s3") =>
        LET recorded == uri2s3location(RecordedUrl(app.catalogUri, app.name,
                                                   app.version, app.provider))
            leaf     == app.name \o "/" \o app.name \o "_" \o app.version \o "_"
                            \o app.provider \o ".box"
        IN  /\ ~recorded.err
            /\ app.res.loc.Bucket = recorded.Bucket
            /\ app.res.loc.Resource = recorded.Resource
            /\ app.res.loc.Resource =
                  ReplaceLastSegment(uri2s3location(app.catalogUri).Resource, leaf)

\* a box has been uploaded for a catalog whose key has no '/'
C22_Witness ==
    /\ app.fn = "CopyBoxFile"
    /\ app.catalogUri = "s3://bucket/testbox.json"
    /\ app.res.err = "nil"
    /\ app.res.loc = S3Location("bucket", "testbox/testbox_1.0_vbox.box")

\* C23: when no catalog exists yet at the backend's target location (the local
\* file is missing, the object store answers "no such key"), GetCatalogBytes
\* returns the bytes {} and no error, and BackendManager.GetCatalog returns
\* the empty Catalog and no error.
C23_MissingCatalogIsEmpty ==
    (app.fn = "GetCatalogBytes" /\ object = NoObject /\ app.outcome = "ok") =>
        /\ app.res = [bytes |-> EmptyObjectBytes, err |-> "nil"]
        /\ app.got = [catalog |-> ZeroCatalog, err |-> "nil"]

\* the object store has answered "no such key" and GetCatalog has returned the
\* empty Catalog
C23_Witness ==
    /\ app.fn = "GetCatalogBytes"
    /\ app.backend = "s3"
    /\ object = NoObject
    /\ app.res.err = "nil"
    /\ app.got.catalog = ZeroCatalog

\* C24: the object store's GetCatalogBytes returns an error for every failure
\* of the download other than "no such key": no such bucket, any other error
\* of the store, any failure of the transport.
C24_DownloadFailureIsReturned ==
    (app.fn = "GetCatalogBytes" /\ app.backend = "s3" /\ app.outcome # "ok") =>
        app.res.err # "nil"

\* DeleteFile has been called with a URI that parses and whose scheme is not
\* the backend's
OtherSchemeDeleted ==
    /\ app.fn = "DeleteFile"
    /\ ~UrlParse(app.uri).err
    /\ UrlParse(app.uri).Scheme # Scheme(app.backend)

\* C25 as stated: for every backend, DeleteFile called with a URI whose scheme
\* differs from the backend's Scheme() fails with the SchemeMismatch error and
\* removes nothing.
C25_SchemeMismatchEveryBackend ==
    OtherSchemeDeleted =>
        /\ app.res.err = "SchemeMismatch"
        /\ app.res.files = app.files

\* C25: for every backend, DeleteFile called with a URI whose scheme differs
\* from the backend's Scheme() returns an error and removes nothing. The
\* error of the local file backend is the one of its comparison of the
\* scheme; the S3 backend compares no scheme, and its error is the one
\* uri2s3location has for a text that is not s3://<bucket>/<key>.
C25_OtherSchemeFailsRemovesNothing ==
    OtherSchemeDeleted =>
        /\ app.res.files = app.files
        /\ app.res.err = IF app.backend = "file" THEN "SchemeMismatch"
                         ELSE "InvalidS3Uri"

\* the local file backend has refused the URI of an S3 object whose path is
\* the path of a file it holds
C25_Witness ==
    /\ app.fn = "DeleteFile"
    /\ app.backend = "file"
    /\ app.uri = "s3://bucket/boxes/testbox/testbox_1.0_vmware.box"
    /\ getValidLocalPath(app.uri).outpath \in app.files
    /\ app.res.err = "SchemeMismatch"

(***************************************************************************)
(* Runs of one writer on a store that starts empty and never fails, with   *)
(* versions and providers whose text holds the '_' that separates them in  *)
(* the name of the box file                                                *)
(***************************************************************************)

\* versions with a prerelease tag, one with a '_' in the tag
TaggedVersions == {"1.0-a", "1.0-a_b"}

\* provider names, one with a '_' (as in vmware_desktop)
UnderscoreProviders == {"b_c", "c"}

\* queries that select one box each, and one that selects a provider
ExactQueries ==
    {CatalogQueryParams("=1.0-a", "^b_c$"), CatalogQueryParams("=1.0-a_b", "^c$"),
     CatalogQueryParams("", "^c$")}

\* nothing is stored yet, no operation has been called, and the environment
\* lets no Backend call fail
InitEmptyStore ==
    /\ object = NoObject
    /\ boxes = {}
    /\ pc = [p \in Writers |-> "idle"]
    /\ call = [p \in Writers |->
                 [op |-> "none", name |-> "", version |-> "", provider |-> "",
                  checksum |-> "", params |-> NoParams]]
    /\ catalog = [p \in Writers |-> ZeroCatalog]
    /\ refs = [p \in Writers |-> <<>>]
    /\ idx = [p \in Writers |-> 1]
    /\ ret = [p \in Writers |-> "nil"]
    /\ log = [p \in Writers |-> <<>>]
    /\ nops = 0
    /\ writes = 0
    /\ faults = MaxFaults
    /\ cat = ZeroCatalog
    /\ app = NoApp

AddTaggedBoxGetCatalog(p) == AddBoxGetCatalogOf(p, TaggedVersions, UnderscoreProviders)

DeleteExactBoxGetCatalog(p) == DeleteBoxGetCatalogOf(p, ExactQueries)

NextBoxFiles ==
    \E p \in {"w1"} :
        \/ AddTaggedBoxGetCatalog(p)
        \/ AddBoxSaveCatalog(p)
        \/ AddBoxCopyBoxFile(p)
        \/ DeleteExactBoxGetCatalog(p)
        \/ DeleteBoxSaveCatalog(p)
        \/ DeleteBoxDeleteFile(p)

SpecBoxFiles == InitEmptyStore /\ [][NextBoxFiles]_vars

(***************************************************************************)
(* Properties of deleting by query, of the queries and of the box files    *)
(***************************************************************************)

\* the version query, when it is not empty, accepts the Version string
VersionQueryAccepts(versionquery, text) ==
    LET q == parseVersionQueryString(versionquery)
    IN  \E i \in 1..Len(q.qualifier) :
            q.qualifier[i] = Compare(NewComparableVersion(text), q.version)

\* the (Version, Provider name) pairs of c that satisfy Test
PairsWhere(c, Test(_, _)) == {pair \in Pairs(c) : Test(pair[1], pair[2])}

StrictLessQueried ==
    /\ app.fn = "QueryCatalogVersions"
    /\ PrefixOf(app.versionquery) = "<"
    /\ ~app.res.err

\* the version a query text bounds: the text after its qualifier
BoundOf(versionquery) ==
    SubSeq(versionquery, Len(PrefixOf(versionquery)) + 1, Len(versionquery))

\* the Version strings QueryCatalogVersions returns for the query on c
ReturnedFor(c, versionquery) ==
    LET r == QueryCatalogVersions(c, versionquery).result
    IN  {r.Versions[i].Version : i \in 1..Len(r.Versions)}

Urls(c) ==
    UNION {{c.Versions[v].Providers[k].Url : k \in 1..Len(c.Versions[v].Providers)} :
              v \in 1..Len(c.Versions)}

\* C28: in a run of one writer that starts from an empty store, uses one box
\* name, and in which every Backend call succeeds, no DeleteBox passes to
\* DeleteFile a URI that is the Url of a Provider of the catalog it has saved.
C28_DeletedFileIsOfNoListedBox ==
    \A p \in Writers : \A i \in 1..Len(log[p]) :
        log[p][i].op = "DeleteFile" => log[p][i].arg \notin Urls(catalog[p])

(***************************************************************************)
(* Properties of the names and of the provider patterns                    *)
(***************************************************************************)

\* C29: Catalog.AddBox called with the empty name on a catalog whose Name is
\* empty returns an error and adds or changes no Version or Provider; so no
\* catalog with an empty Name holds a Version, before or after an AddBox.
C29_EmptyNameAddsNothing ==
    /\ cat.Name = "" => cat.Versions = <<>>
    /\ app.fn = "AddBox" =>
          /\ (app.name = "" /\ cat.Name = "") =>
                /\ app.res.err # "nil"
                /\ app.res.catalog.Versions = cat.Versions
          /\ app.res.catalog.Name = "" => app.res.catalog.Versions = <<>>

\* C30: BackendManager.DeleteBox called with a provider pattern that is not a
\* valid regular expression does not panic: it returns an error, and it calls
\* neither SetCatalogBytes nor DeleteFile.
C30_InvalidPatternReturnsError ==
    \A p \in Writers :
        (call[p].op = "DeleteBox" /\ ~RegexpCompiles(call[p].params.Provider)) =>
            /\ pc[p] # "panic"
            /\ ret[p] # "nil"
            /\ \A i \in 1..Len(log[p]) : log[p][i].op = "GetCatalogBytes"

====
